---------------------------- MODULE Spec2Model ----------------------------
(***************************************************************************)
(* State-machine model of the FUSION metrics pipeline of MAJECT:           *)
(*   - the metric store (FUSION/db/models.py),                             *)
(*   - the ingest bridge (FUSION/integration/beval_collector.py),          *)
(*   - the query/report endpoints (FUSION/api/server.py),                  *)
(*   - the analytics engine (FUSION/integration/metrics_processor.py).     *)
(*                                                                         *)
(* Conventions.  A nullable column or an optional dictionary key is a set  *)
(* with at most one element: {} is None / SQL NULL / key absent, {v} is    *)
(* the value v.  Sentiments and lexicon valences are scaled by 10 (0.3 is  *)
(* 3), delays are in milliseconds, timestamps are whole seconds.           *)
(***************************************************************************)
EXTENDS Integers, Sequences, FiniteSets, TLC

VARIABLES
    sessions,          \* table sessions, in rowid order
    video_metrics,     \* table video_metrics, in rowid order
    audio_metrics,     \* table audio_metrics, in rowid order
    unified_metrics,   \* table unified_metrics, in rowid order
    call,              \* the last call made on the store and how it ran
    now,               \* the wall clock, in seconds
    writeLog,          \* history: the save calls made so far, in order
    bridge,            \* the BEVALCollector object and its main() coroutine
    channel,           \* the live channel between bridge and sensing process
    webui              \* the BehavioralWebUI object, its worker and a reader

tables == <<sessions, video_metrics, audio_metrics, unified_metrics>>
storeVars == <<sessions, video_metrics, audio_metrics, unified_metrics, call>>
\* Everything a call on the store leaves alone.
clientVars == <<writeLog, bridge, channel, webui>>
outsideStore == <<now, clientVars>>
vars == <<storeVars, outsideStore>>

---------------------------------------------------------------------------
(* Optional values *)

None == {}
Some(v) == {v}
IsNone(o) == o = {}
\* The value of a present optional value.
Get(o) == CHOOSE v \in o : TRUE
\* dict.get(key, default) on an optional key.
GetOr(o, default) == IF o = {} THEN default ELSE Get(o)

---------------------------------------------------------------------------
(* Bounds of the model *)

\* Rows the three metric tables may hold together in SpecStore.
MaxStoreRows == 2
\* Rows the unified table may hold in SpecQuery.
MaxRows == 3
\* Session ids the clients of the store use.
SessionIds == {"s1", "s2"}
\* Timestamps the clients of the store write and query.
Timestamps == {10, 20, 30}

---------------------------------------------------------------------------
(* json.dumps / json.loads of a flag dictionary *)

\* The keys of a stress_indicators dictionary, in the order the bridge
\* inserts them.
StressKeyOrder == <<"high_blink_rate", "negative_emotion", "poor_posture",
                    "high_movement", "negative_sentiment">>

\* The keys of dictionary d in StressKeyOrder order.
DictKeys(d) == SelectSeq(StressKeyOrder, LAMBDA k : k \in DOMAIN d)

\* json.dumps(d): the text, as the sequence of its "key": literal members.
json_dumps(d) ==
    [i \in 1..Len(DictKeys(d)) |->
        <<DictKeys(d)[i], IF d[DictKeys(d)[i]] THEN "true" ELSE "false">>]

\* json.loads(text): the dictionary the members of the text denote.
json_loads(text) ==
    [k \in {text[i][1] : i \in 1..Len(text)} |->
        LET i == CHOOSE j \in 1..Len(text) : text[j][1] = k
        IN  text[i][2] = "true"]

\* Python truthiness of an optional dictionary: None and {} are falsy.
Truthy(od) == od # None /\ DOMAIN Get(od) # {}

\* `json.dumps(x) if x else None`
DumpsIfTruthy(od) == IF Truthy(od) THEN Some(json_dumps(Get(od))) ELSE None

\* A consumer's parse of a serialized column: NULL stays null.
ParseColumn(col) == IF col = None THEN None ELSE Some(json_loads(Get(col)))

---------------------------------------------------------------------------
(* Records of the three metric kinds (the columns the pipeline reads) *)

VideoMetric(sid, ts, emotion, attention, posture, movement, fatigue) ==
    [session_id |-> sid, timestamp |-> ts, emotion |-> emotion,
     attention_state |-> attention, posture_state |-> posture,
     movement_level |-> movement, fatigue_level |-> fatigue]

AudioMetric(sid, ts, emotion, sentiment, confidence) ==
    [session_id |-> sid, timestamp |-> ts, emotion |-> emotion,
     sentiment |-> sentiment, confidence |-> confidence]

UnifiedMetric(sid, ts, emotion, attention, posture, movement, fatigue, sentiment, confidence, score, engagement, stress, level) ==
    [session_id |-> sid, timestamp |-> ts, unified_emotion |-> emotion,
     unified_attention |-> attention, unified_posture |-> posture,
     unified_movement |-> movement, unified_fatigue |-> fatigue,
     unified_sentiment |-> sentiment, unified_confidence |-> confidence,
     attention_score |-> score, engagement_level |-> engagement,
     stress_indicators |-> stress, confidence_level |-> level]

\* A metric with every optional field left at its dataclass default.
BlankVideo(sid, ts) == VideoMetric(sid, ts, None, None, None, None, None)
BlankAudio(sid, ts) == AudioMetric(sid, ts, None, None, None)
BlankUnified(sid, ts) ==
    UnifiedMetric(sid, ts, None, None, None, None, None, None, None, None,
                  None, None, None)

---------------------------------------------------------------------------
(* The store: INSERT with retry *)

max_retries == 3
retry_delay == 100

RECURSIVE Pow2(_)
Pow2(n) == IF n = 0 THEN 1 ELSE 2 * Pow2(n - 1)

\* A backoff that forgets to double.
BackoffFlat(attempt) == retry_delay

\* time.sleep(retry_delay * (2 ** attempt)), in milliseconds.
Backoff(attempt) == retry_delay * Pow2(attempt)

\* What one INSERT attempt can meet: the statement commits, the store is
\* busy ("database is locked"), or another store error is raised.
Outcomes == {"ok", "locked", "error"}

\* The row an INSERT adds: the bound parameters, under the next rowid.
\* The serialized column of a unified metric is written by DumpsIfTruthy.
RowOf(tbl, metric) ==
    [k \in DOMAIN metric \cup {"id"} |->
        IF k = "id" THEN Len(tbl) + 1
        ELSE IF k = "stress_indicators" THEN DumpsIfTruthy(metric[k])
        ELSE metric[k]]

Insert(tbl, metric) == Append(tbl, RowOf(tbl, metric))

\* How a save ends. `raised` tells whether an exception leaves the call.
SaveResult(ret, rows, attempts, sleeps, raised) ==
    [ret |-> ret, rows |-> rows, attempts |-> attempts, sleeps |-> sleeps,
     raised |-> raised]

\* A save whose failed INSERT escapes as an exception.
SaveFailedRaises(tbl, attempts, sleeps) ==
    SaveResult(FALSE, tbl, attempts, sleeps, TRUE)

\* The except clauses of a save: the error is logged, nothing is written
\* and False is returned.
SaveFailed(tbl, attempts, sleeps) ==
    SaveResult(FALSE, tbl, attempts, sleeps, FALSE)

\* cursor.execute(INSERT ...); self.conn.commit(); return True
SaveCommitted(tbl, metric, attempts, sleeps) ==
    SaveResult(TRUE, Insert(tbl, metric), attempts, sleeps, FALSE)

\* The retry loop of save_video_metric / save_audio_metric /
\* save_unified_metric from attempt `attempt` on: outcomes[i] is what the
\* i-th INSERT attempt meets.
RECURSIVE SaveLoop(_, _, _, _, _)
SaveLoop(tbl, metric, outcomes, attempt, sleeps) ==
    IF attempt >= max_retries
    THEN SaveFailed(tbl, attempt, sleeps)
    ELSE IF outcomes[attempt + 1] = "ok"
    THEN SaveCommitted(tbl, metric, attempt + 1, sleeps)
    ELSE IF outcomes[attempt + 1] = "locked" /\ attempt < max_retries - 1
    THEN SaveLoop(tbl, metric, outcomes, attempt + 1,
                  Append(sleeps, Backoff(attempt)))
    ELSE SaveFailed(tbl, attempt + 1, sleeps)

\* Every way the store can answer the attempts of one call.
OutcomeSeqs == [1..max_retries -> Outcomes]

\* The record kept of a finished write call: its argument, what its
\* attempts met, the length of its table when it began, what it returned
\* and how it slept.
CallRecord(op, metric, outcomes, before, run) ==
    [op |-> op, metric |-> metric,
     outcomes |-> SubSeq(outcomes, 1, run.attempts),
     before |-> before, ret |-> run.ret, attempts |-> run.attempts,
     sleeps |-> run.sleeps, raised |-> run.raised]

NoCall == [op |-> "none"]

save_video_metric(metric, outcomes) ==
    LET run == SaveLoop(video_metrics, metric, outcomes, 0, <<>>)
    IN  /\ video_metrics' = run.rows
        /\ call' = CallRecord("save_video_metric", metric, outcomes,
                              Len(video_metrics), run)

save_audio_metric(metric, outcomes) ==
    LET run == SaveLoop(audio_metrics, metric, outcomes, 0, <<>>)
    IN  /\ audio_metrics' = run.rows
        /\ call' = CallRecord("save_audio_metric", metric, outcomes,
                              Len(audio_metrics), run)

save_unified_metric(metric, outcomes) ==
    LET run == SaveLoop(unified_metrics, metric, outcomes, 0, <<>>)
    IN  /\ unified_metrics' = run.rows
        /\ call' = CallRecord("save_unified_metric", metric, outcomes,
                              Len(unified_metrics), run)

\* The table a write call writes.
TableOf(op) ==
    IF op = "save_video_metric" THEN video_metrics
    ELSE IF op = "save_audio_metric" THEN audio_metrics
    ELSE unified_metrics

---------------------------------------------------------------------------
(* The store: reads *)

\* Insertion of row r into the timestamp-ascending list `sorted`, after the
\* rows of equal timestamp (ORDER BY keeps rowid order among ties).
RECURSIVE InsertSorted(_, _)
InsertSorted(sorted, r) ==
    IF sorted = <<>> THEN <<r>>
    ELSE IF r.timestamp < Head(sorted).timestamp THEN <<r>> \o sorted
    ELSE <<Head(sorted)>> \o InsertSorted(Tail(sorted), r)

\* ORDER BY timestamp ASC
RECURSIVE OrderByTimestampAsc(_)
OrderByTimestampAsc(rows) ==
    IF rows = <<>> THEN <<>>
    ELSE InsertSorted(OrderByTimestampAsc(SubSeq(rows, 1, Len(rows) - 1)),
                      rows[Len(rows)])

\* A read that forgets the ORDER BY clause.
SelectRangeUnordered(sid, start_time, end_time) ==
    SelectSeq(unified_metrics,
              LAMBDA r : /\ r.session_id = sid
                         /\ r.timestamp >= start_time
                         /\ r.timestamp <= end_time)

\* SELECT * FROM unified_metrics WHERE session_id = ? AND timestamp >= ?
\* AND timestamp <= ? ORDER BY timestamp ASC
SelectRange(sid, start_time, end_time) ==
    OrderByTimestampAsc(
        SelectSeq(unified_metrics,
                  LAMBDA r : /\ r.session_id = sid
                             /\ r.timestamp >= start_time
                             /\ r.timestamp <= end_time))

\* SELECT * FROM unified_metrics WHERE session_id = ?
\* ORDER BY timestamp DESC LIMIT 1: None when the session has no row.
SelectLatest(sid) ==
    LET mine == SelectSeq(unified_metrics, LAMBDA r : r.session_id = sid)
        asc  == OrderByTimestampAsc(mine)
    IN  IF mine = <<>> THEN None
        ELSE Some(CHOOSE r \in {asc[i] : i \in 1..Len(asc)} :
                    /\ r.timestamp = asc[Len(asc)].timestamp
                    /\ \A i \in 1..Len(asc) :
                          asc[i].timestamp = r.timestamp => asc[i].id >= r.id)

get_metrics_range(sid, start_time, end_time) ==
    /\ call' = [op |-> "get_metrics_range", session_id |-> sid,
                start_time |-> start_time, end_time |-> end_time,
                rows |-> SelectRange(sid, start_time, end_time)]
    /\ UNCHANGED <<tables, outsideStore>>

get_current_metrics(sid) ==
    /\ call' = [op |-> "get_current_metrics", session_id |-> sid,
                row |-> SelectLatest(sid)]
    /\ UNCHANGED <<tables, outsideStore>>

---------------------------------------------------------------------------
(* The ingest bridge and the live channel, as constructed *)

\* BEVALCollector.__init__; pc is the position of main().  slept is the
\* last sleep of the polling loop, in seconds.
NewCollector ==
    [current_session_id |-> None, is_connected |-> FALSE,
     socketio_client |-> FALSE, use_socketio |-> TRUE, pc |-> "start",
     slept |-> 0]

\* No connection; request_data tells that a snapshot request is unanswered.
NoChannel == [state |-> "closed", request_data |-> FALSE]

---------------------------------------------------------------------------
(* Specifications of the store under direct clients *)

\* The snapshot collection cycle k builds: every part carries the values
\* the analyzer had in cycle k (cycle 0: the empty parts of __init__).
Snapshot(k) ==
    [video |-> k, audio |-> k, objects |-> k, session_stats |-> k,
     timestamp |-> k]

\* The BehavioralWebUI object after __init__: the worker thread is not
\* started (pc), no part of a snapshot is built (built), nothing was
\* pushed, no reader holds a reference (ref) or has sent (seen), and the
\* video stream thread is not started (video_pc).  For the life cycle of
\* the loops: analyzer tells whether self.analyzer is set, the *_thread
\* fields hold the index in `threads` of the Thread object they refer to,
\* threads are the Thread objects started so far, stopping is the position
\* of a running stop_analyzer, joining are the toggle handlers waiting in
\* _stop_video_stream, calls counts the calls and events from outside, and
\* shutdown tells that stop_analyzer has returned and start_analyzer was not
\* called since.
NewWebUI ==
    [latest_data |-> Snapshot(0), data_thread_active |-> FALSE,
     pc |-> "idle", tick |-> 0, built |-> 0, failed |-> FALSE,
     pushes |-> <<>>, ref |-> None, seen |-> None, reads |-> 0,
     video_streaming |-> FALSE, video_pc |-> "idle", frames |-> <<>>,
     analyzer |-> FALSE, frame_processing_active |-> FALSE,
     frame_processing_thread |-> None, video_thread |-> None,
     data_thread |-> None, threads |-> <<>>, started |-> FALSE,
     stopping |-> [pc |-> "idle", target |-> None, since |-> 0],
     joining |-> {}, calls |-> 0, shutdown |-> FALSE]

InitStore ==
    /\ sessions = <<>>
    /\ video_metrics = <<>>
    /\ audio_metrics = <<>>
    /\ unified_metrics = <<>>
    /\ call = NoCall
    /\ now = 0
    /\ writeLog = <<>>
    /\ bridge = NewCollector
    /\ channel = NoChannel
    /\ webui = NewWebUI

StoreRows == Len(video_metrics) + Len(audio_metrics) + Len(unified_metrics)

ClientSaveVideo ==
    /\ StoreRows < MaxStoreRows
    /\ \E sid \in SessionIds, ts \in Timestamps, outcomes \in OutcomeSeqs :
          save_video_metric(BlankVideo(sid, ts), outcomes)
    /\ UNCHANGED <<sessions, audio_metrics, unified_metrics, outsideStore>>

ClientSaveAudio ==
    /\ StoreRows < MaxStoreRows
    /\ \E sid \in SessionIds, ts \in Timestamps, outcomes \in OutcomeSeqs :
          save_audio_metric(BlankAudio(sid, ts), outcomes)
    /\ UNCHANGED <<sessions, video_metrics, unified_metrics, outsideStore>>

ClientSaveUnified ==
    /\ StoreRows < MaxStoreRows
    /\ \E sid \in SessionIds, ts \in Timestamps, outcomes \in OutcomeSeqs :
          save_unified_metric(BlankUnified(sid, ts), outcomes)
    /\ UNCHANGED <<sessions, video_metrics, audio_metrics, outsideStore>>

NextStore ==
    \/ ClientSaveVideo
    \/ ClientSaveAudio
    \/ ClientSaveUnified

SpecStore == InitStore /\ [][NextStore]_vars

\* The unified table written out of order by several sessions, and read.
QuerySaveUnified ==
    /\ Len(unified_metrics) < MaxRows
    /\ \E sid \in SessionIds, ts \in Timestamps, outcomes \in OutcomeSeqs :
          save_unified_metric(BlankUnified(sid, ts), outcomes)
    /\ UNCHANGED <<sessions, video_metrics, audio_metrics, outsideStore>>

QueryGetRange ==
    \E sid \in SessionIds, t0 \in Timestamps, t1 \in Timestamps :
        get_metrics_range(sid, t0, t1)

QueryGetCurrent ==
    \E sid \in SessionIds : get_current_metrics(sid)

NextQuery ==
    \/ QuerySaveUnified
    \/ QueryGetRange
    \/ QueryGetCurrent

SpecQuery == InitStore /\ [][NextQuery]_vars

---------------------------------------------------------------------------
(* C1 *)

SaveOps == {"save_video_metric", "save_audio_metric", "save_unified_metric"}

\* C1: every save makes at most 3 INSERT attempts, sleeps 100 ms after the
\* first busy failure and 200 ms after the second, surfaces a busy failure
\* only after the third failed attempt, and a call that finds the store
\* free on one of its attempts adds exactly one row and returns True (a
\* call that returns False adds none).
C1_BoundedRetryBackoff ==
    call.op \in SaveOps =>
        /\ call.attempts \in 1..3
        /\ call.sleeps = SubSeq(<<100, 200>>, 1, call.attempts - 1)
        /\ (~call.ret /\ call.outcomes[call.attempts] = "locked")
              => call.attempts = 3
        /\ (\E i \in 1..Len(call.outcomes) : call.outcomes[i] = "ok")
              => /\ call.ret
                 /\ Len(TableOf(call.op)) = call.before + 1
        /\ call.ret => call.outcomes[call.attempts] = "ok"
        /\ ~call.ret => Len(TableOf(call.op)) = call.before

\* A save that met a busy store twice and committed on its third attempt.
C1_Witness ==
    /\ call.op = "save_unified_metric"
    /\ call.outcomes = <<"locked", "locked", "ok">>
    /\ call.ret
    /\ call.sleeps = <<100, 200>>

---------------------------------------------------------------------------
(* C3 *)

\* The rows of the unified table a range query is asked for.
InRange(r, c) ==
    /\ r.session_id = c.session_id
    /\ r.timestamp >= c.start_time
    /\ r.timestamp <= c.end_time

\* The result of the last range query is ascending by timestamp and holds
\* exactly the rows of the session inside [start_time, end_time], once each.
C3_SortedExact ==
    call.op = "get_metrics_range" =>
        /\ \A i \in 1..(Len(call.rows) - 1) :
              call.rows[i].timestamp <= call.rows[i + 1].timestamp
        /\ {call.rows[i] : i \in 1..Len(call.rows)}
              = {unified_metrics[j] : j \in
                    {k \in 1..Len(unified_metrics) :
                        InRange(unified_metrics[k], call)}}
        /\ Len(call.rows)
              = Cardinality({k \in 1..Len(unified_metrics) :
                                InRange(unified_metrics[k], call)})

\* A range query repeated with the same arguments and no write in between
\* returns the same rows in the same order.
C3_Repeatable ==
    [][(/\ call.op = "get_metrics_range"
        /\ call'.op = "get_metrics_range"
        /\ call'.session_id = call.session_id
        /\ call'.start_time = call.start_time
        /\ call'.end_time = call.end_time) => call'.rows = call.rows]_vars

---------------------------------------------------------------------------
(* Sessions *)

\* User ids a client may pass to create_session (None: no user id).
UserIds == {None, Some("u1"), Some("u2")}
\* The latest clock value of SpecSession.
MaxSessionClock == 2

\* The sessions table keys its rows by session_id: an INSERT of a session
\* id the table holds raises sqlite3.IntegrityError.
SessionExists(tbl, sid) == \E i \in 1..Len(tbl) : tbl[i].session_id = sid

\* create_session(session_id, user_id) on the sessions table tbl, `outcome`
\* being what the INSERT meets. True after the commit; False when
\* IntegrityError is raised ("already exists") and False when any other
\* exception is raised.
InsertSession(tbl, sid, user_id, outcome) ==
    IF outcome = "ok" /\ ~SessionExists(tbl, sid)
    THEN [ret |-> TRUE, error |-> "none",
          rows |-> Append(tbl, [session_id |-> sid, user_id |-> user_id,
                                start_time |-> now])]
    ELSE IF outcome = "ok"
    THEN [ret |-> FALSE, error |-> "IntegrityError", rows |-> tbl]
    ELSE [ret |-> FALSE, error |-> "Exception", rows |-> tbl]

create_session(sid, user_id, outcome) ==
    InsertSession(sessions, sid, user_id, outcome)

\* db.create_session called directly, as the ingest bridge does.
StoreCreateSession(sid, user_id, outcome) ==
    LET run == create_session(sid, user_id, outcome)
    IN  /\ sessions' = run.rows
        /\ call' = [op |-> "create_session", session_id |-> sid,
                    user_id |-> user_id, before |-> sessions,
                    ret |-> run.ret, error |-> run.error,
                    message |-> "", status |-> 0]

\* POST /api/sessions
api_create_session(sid, user_id, outcome) ==
    LET run == create_session(sid, user_id, outcome)
    IN  /\ sessions' = run.rows
        /\ call' = [op |-> "POST /api/sessions", session_id |-> sid,
                    user_id |-> user_id, before |-> sessions,
                    ret |-> run.ret, error |-> run.error,
                    message |-> IF run.ret THEN "Session created"
                                ELSE "Session already exists",
                    status |-> 200]

SessionDirect ==
    /\ \E sid \in SessionIds, user_id \in UserIds, outcome \in Outcomes :
          StoreCreateSession(sid, user_id, outcome)
    /\ UNCHANGED <<video_metrics, audio_metrics, unified_metrics, outsideStore>>

SessionPost ==
    /\ \E sid \in SessionIds, user_id \in UserIds, outcome \in Outcomes :
          api_create_session(sid, user_id, outcome)
    /\ UNCHANGED <<video_metrics, audio_metrics, unified_metrics, outsideStore>>

SessionTick ==
    /\ now < MaxSessionClock
    /\ now' = now + 1
    /\ UNCHANGED <<storeVars, clientVars>>

NextSession ==
    \/ SessionDirect
    \/ SessionPost
    \/ SessionTick

SpecSession == InitStore /\ [][NextSession]_vars

SessionOps == {"create_session", "POST /api/sessions"}

\* C4: the first create_session(id) adds exactly one session row, and a
\* later one is a no-op on the table that is reported as already-exists:
\* after any create_session the table holds exactly one row of that id, a
\* call reported as created added it, and a call reported as
\* already-exists found it there and left the table as it was.
C4_CreateIdempotent ==
    call.op \in SessionOps =>
        /\ Cardinality({i \in 1..Len(sessions) :
                          sessions[i].session_id = call.session_id}) = 1
        /\ call.ret =>
              /\ Len(sessions) = Len(call.before) + 1
              /\ \A i \in 1..Len(call.before) :
                    call.before[i].session_id # call.session_id
        /\ ~call.ret =>
              /\ sessions = call.before
              /\ \E i \in 1..Len(call.before) :
                    call.before[i].session_id = call.session_id
        /\ call.op = "POST /api/sessions" =>
              /\ call.status = 200
              /\ call.message = (IF call.ret THEN "Session created"
                                 ELSE "Session already exists")

---------------------------------------------------------------------------
(* Round trip of stress_indicators through the unified table *)

\* Keys a written stress_indicators dictionary may hold: the first
\* MaxStressKeys of StressKeyOrder.
MaxStressKeys == 2
\* Save calls SpecRoundTrip makes.
MaxTripWrites == 2

StressKeys == {StressKeyOrder[i] : i \in 1..MaxStressKeys}
\* Every dictionary over a subset of the keys, the empty one included.
StressDicts == UNION {[D -> BOOLEAN] : D \in SUBSET StressKeys}

\* The save call just made, appended to the history.
LogWrite ==
    writeLog' = Append(writeLog, [op |-> call'.op, metric |-> call'.metric,
                                  ret |-> call'.ret, raised |-> call'.raised])

TripSave ==
    /\ Len(writeLog) < MaxTripWrites
    /\ \E ts \in Timestamps, S \in StressDicts, outcomes \in OutcomeSeqs :
          save_unified_metric(
              [BlankUnified("s1", ts) EXCEPT !.stress_indicators = Some(S)],
              outcomes)
    /\ LogWrite
    /\ UNCHANGED <<sessions, video_metrics, audio_metrics, now, bridge, channel,
                   webui>>

TripGetCurrent ==
    get_current_metrics("s1")

TripGetRange ==
    \E t0 \in Timestamps, t1 \in Timestamps :
        get_metrics_range("s1", t0, t1)

NextRoundTrip ==
    \/ TripSave
    \/ TripGetCurrent
    \/ TripGetRange

SpecRoundTrip == InitStore /\ [][NextRoundTrip]_vars

\* The metrics of the successful save_unified_metric calls, in order: the
\* k-th one is the metric whose row has id k.
WrittenUnified ==
    SelectSeq(writeLog, LAMBDA w : w.op = "save_unified_metric" /\ w.ret)

\* The row read back holds, once parsed, the structure that was written.
ReadsBack(row) ==
    ParseColumn(row.stress_indicators) =
        WrittenUnified[row.id].metric.stress_indicators

\* C9: a UnifiedMetric written with stress_indicators = S and read back
\* through get_current_metrics or get_metrics_range yields a value that
\* deserializes to a structure equal to S, for every S.
C9_StressRoundTrip ==
    /\ call.op = "get_metrics_range" =>
          \A i \in 1..Len(call.rows) : ReadsBack(call.rows[i])
    /\ call.op = "get_current_metrics" /\ call.row # None =>
          ReadsBack(Get(call.row))

---------------------------------------------------------------------------
(* GET /api/report/{session_id}: resolution of the 'current' session *)

\* Rows the three metric tables may hold together in SpecReport.
MaxReportRows == 3
\* Steps the clock of SpecReport makes.
MaxReportTicks == 3
\* One step of the clock of SpecReport: half of the recency window.
ReportTick == 3600 \div 2

\* An outcome sequence of a store that is never busy.
StoreFree == [i \in 1..max_retries |-> "ok"]

\* The rows of tbl with timestamp > cutoff (every row when cutoff is None).
After(tbl, cutoff) ==
    SelectSeq(tbl, LAMBDA r : cutoff = None \/ r.timestamp > Get(cutoff))

\* GROUP BY session_id with MAX(timestamp) and COUNT( * ).
GroupBySession(rows) ==
    {[session_id |-> sid,
      last_time |-> CHOOSE t \in {rows[i].timestamp : i \in
                        {j \in 1..Len(rows) : rows[j].session_id = sid}} :
                      \A i \in 1..Len(rows) :
                          rows[i].session_id = sid => rows[i].timestamp <= t,
      metric_count |-> Cardinality({i \in 1..Len(rows) :
                                      rows[i].session_id = sid})] :
        sid \in {rows[i].session_id : i \in 1..Len(rows)}}

\* ORDER BY last_time DESC [, metric_count DESC] LIMIT 1: the groups the
\* statement may return (several when the ordering leaves a tie).
FirstGroups(groups, byCount) ==
    {g \in groups : \A h \in groups :
        \/ h.last_time < g.last_time
        \/ h.last_time = g.last_time /\
             (byCount => h.metric_count <= g.metric_count)}

\* The tiers of the resolution, in the order they are tried; each is the
\* set of groups its statement may return.
ResolutionTiers ==
    LET one_hour_ago == Some(now - 3600)
    IN  << [name |-> "unified_recent",
            groups |-> FirstGroups(GroupBySession(
                          After(unified_metrics, one_hour_ago)), TRUE)],
           [name |-> "video_recent",
            groups |-> FirstGroups(GroupBySession(
                          After(video_metrics, one_hour_ago)), TRUE)],
           [name |-> "audio_recent",
            groups |-> FirstGroups(GroupBySession(
                          After(audio_metrics, one_hour_ago)), TRUE)],
           [name |-> "unified_all",
            groups |-> FirstGroups(GroupBySession(
                          After(unified_metrics, None)), FALSE)] >>

\* The first of the tiers that returns a row, 0 when none does.
FirstTier(tiers) ==
    IF \E k \in 1..Len(tiers) : tiers[k].groups # {}
    THEN CHOOSE k \in 1..Len(tiers) :
            /\ tiers[k].groups # {}
            /\ \A j \in 1..(k - 1) : tiers[j].groups = {}
    ELSE 0

CurrentNames == {"current", "current_session"}

\* The data source the report aggregates from, over the last two hours.
ReportSource(sid) ==
    LET two_hours_ago == now - 7200
        has(tbl) == \E i \in 1..Len(tbl) :
                       /\ tbl[i].session_id = sid
                       /\ tbl[i].timestamp > two_hours_ago
    IN  IF has(unified_metrics) THEN "unified"
        ELSE IF has(video_metrics) \/ has(audio_metrics) THEN "individual"
        ELSE "empty"

\* SELECT COUNT( * ), MIN(timestamp), MAX(timestamp) FROM tbl WHERE
\* session_id = ? AND timestamp > ?: the aggregates are NULL over no row.
ReportStats(tbl, sid) ==
    LET two_hours_ago == now - 7200
        stamps == {tbl[i].timestamp : i \in
                     {j \in 1..Len(tbl) : /\ tbl[j].session_id = sid
                                          /\ tbl[j].timestamp > two_hours_ago}}
    IN  [count |-> Cardinality({j \in 1..Len(tbl) :
                                  /\ tbl[j].session_id = sid
                                  /\ tbl[j].timestamp > two_hours_ago}),
         start_time |-> IF stamps = {} THEN None
                        ELSE Some(CHOOSE t \in stamps :
                                      \A u \in stamps : t <= u),
         end_time |-> IF stamps = {} THEN None
                      ELSE Some(CHOOSE t \in stamps :
                                    \A u \in stamps : u <= t)]

\* 24 hours, in seconds.
DayCap == 86400

\* duration_seconds of the report built from the unified table, in
\* thousandths of a second.
UnifiedDuration(sid) ==
    LET stats == ReportStats(unified_metrics, sid)
        start_time == GetOr(stats.start_time, 0)
        end_time == GetOr(stats.end_time, 0)
        duration_seconds == end_time - start_time
    IN  IF start_time # 0 /\ end_time # 0 /\ end_time > start_time
        THEN IF duration_seconds > DayCap
             THEN IF duration_seconds <= DayCap * 1000
                  THEN duration_seconds
                  ELSE DayCap * 1000
             ELSE duration_seconds * 1000
        ELSE 0

\* duration_seconds of the report built from the video and audio tables,
\* in thousandths of a second.  A timestamp that is falsy counts as absent;
\* `Far` stands for float('inf').
IndividualDuration(sid) ==
    LET video_stats == ReportStats(video_metrics, sid)
        audio_stats == ReportStats(audio_metrics, sid)
        Far == -1
        least(a, b) == IF a = Far THEN b ELSE IF b = Far THEN a
                       ELSE IF a < b THEN a ELSE b
        start_time ==
            least(IF GetOr(video_stats.start_time, 0) # 0
                  THEN Get(video_stats.start_time) ELSE Far,
                  IF GetOr(audio_stats.start_time, 0) # 0
                  THEN Get(audio_stats.start_time) ELSE Far)
        v_end == GetOr(video_stats.end_time, 0)
        a_end == GetOr(audio_stats.end_time, 0)
        end_time == IF v_end > a_end THEN v_end ELSE a_end
        duration_seconds == end_time - start_time
    IN  IF start_time # Far /\ end_time # 0 /\ end_time > start_time
        THEN IF duration_seconds > DayCap THEN DayCap * 1000
             ELSE duration_seconds * 1000
        ELSE 0

\* duration_seconds of the report of session sid, by its data source.
ReportDuration(sid) ==
    IF ReportSource(sid) = "unified" THEN UnifiedDuration(sid)
    ELSE IF ReportSource(sid) = "individual" THEN IndividualDuration(sid)
    ELSE 0

\* total_data_points of the report of session sid: the rows of its data
\* source within the last two hours.
TotalDataPoints(sid) ==
    IF ReportSource(sid) = "unified"
    THEN ReportStats(unified_metrics, sid).count
    ELSE IF ReportSource(sid) = "individual"
    THEN ReportStats(video_metrics, sid).count
           + ReportStats(audio_metrics, sid).count
    ELSE 0

get_session_report(session_id) ==
    /\ IF session_id \in CurrentNames
       THEN LET tiers == ResolutionTiers
                tier1 == FirstTier(tiers)
            IN  IF tier1 = 0
                THEN call' = [op |-> "get_session_report",
                              requested |-> session_id, status |-> 404,
                              tier |-> "none", session_id |-> session_id,
                              source |-> "none"]
                ELSE \E g \in tiers[tier1].groups :
                        call' = [op |-> "get_session_report",
                                 requested |-> session_id, status |-> 200,
                                 tier |-> tiers[tier1].name,
                                 session_id |-> g.session_id,
                                 source |-> ReportSource(g.session_id),
                                 total_data_points |->
                                    TotalDataPoints(g.session_id),
                                 duration |-> ReportDuration(g.session_id)]
       ELSE call' = [op |-> "get_session_report",
                     requested |-> session_id, status |-> 200,
                     tier |-> "given", session_id |-> session_id,
                     source |-> ReportSource(session_id),
                     total_data_points |-> TotalDataPoints(session_id),
                     duration |-> ReportDuration(session_id)]
    /\ UNCHANGED <<tables, outsideStore>>

ReportRows == Len(video_metrics) + Len(audio_metrics) + Len(unified_metrics)

\* The bridge of session sid stores a metric stamped with the current time.
ReportSaveVideo ==
    /\ ReportRows < MaxReportRows
    /\ \E sid \in SessionIds : save_video_metric(BlankVideo(sid, now), StoreFree)
    /\ UNCHANGED <<sessions, audio_metrics, unified_metrics, outsideStore>>

ReportSaveAudio ==
    /\ ReportRows < MaxReportRows
    /\ \E sid \in SessionIds : save_audio_metric(BlankAudio(sid, now), StoreFree)
    /\ UNCHANGED <<sessions, video_metrics, unified_metrics, outsideStore>>

ReportSaveUnified ==
    /\ ReportRows < MaxReportRows
    /\ \E sid \in SessionIds :
          save_unified_metric(BlankUnified(sid, now), StoreFree)
    /\ UNCHANGED <<sessions, video_metrics, audio_metrics, outsideStore>>

ReportClock ==
    /\ now < MaxReportTicks * ReportTick
    /\ now' = now + ReportTick
    /\ UNCHANGED <<storeVars, clientVars>>

ReportRequest ==
    \E session_id \in CurrentNames \cup SessionIds :
        get_session_report(session_id)

NextReport ==
    \/ ReportSaveVideo
    \/ ReportSaveAudio
    \/ ReportSaveUnified
    \/ ReportClock
    \/ ReportRequest

SpecReport == InitStore /\ [][NextReport]_vars

\* The sessions with the greatest maximum timestamp among rows.
MostRecent(rows) ==
    {g.session_id : g \in FirstGroups(GroupBySession(rows), FALSE)}

\* C5: resolution of 'current' is tiered: the session with the greatest
\* maximum timestamp among the unified rows of the last hour when there are
\* any, otherwise the same over the video table, otherwise over the audio
\* table, otherwise the most recent session overall with no time
\* restriction; not-found is answered only when no table has any row.
C5_TieredResolution ==
    call.op = "get_session_report" /\ call.requested \in CurrentNames =>
        LET one_hour_ago == Some(now - 3600)
            U == MostRecent(After(unified_metrics, one_hour_ago))
            V == MostRecent(After(video_metrics, one_hour_ago))
            A == MostRecent(After(audio_metrics, one_hour_ago))
            O == MostRecent(unified_metrics \o video_metrics \o audio_metrics)
            tier == IF U # {} THEN U ELSE IF V # {} THEN V
                    ELSE IF A # {} THEN A ELSE O
        IN  IF tier = {} THEN call.status = 404
            ELSE call.status = 200 /\ call.session_id \in tier

---------------------------------------------------------------------------
(* The ingest bridge: derivation of the records of one unified_state event *)

\* The video and audio sub-objects of a payload: a key that is absent is
\* None.  Sentiment is in tenths.
VideoData(emotion, attention, posture, movement, fatigue) ==
    [emotion |-> emotion, attention_state |-> attention,
     posture_state |-> posture, movement_level |-> movement,
     fatigue_level |-> fatigue]

AudioData(emotion, sentiment, confidence_label) ==
    [emotion |-> emotion, sentiment |-> sentiment,
     confidence_label |-> confidence_label]

\* self.latest_data of the sensing process before any collection.
EmptyPayload ==
    [video |-> VideoData(None, None, None, None, None),
     audio |-> AudioData(None, None, None)]

\* The payloads the sensing process sends.
Payloads ==
    { EmptyPayload,
      [video |-> VideoData(Some("sad"), Some("Distracted"), Some("Poor"),
                           Some("High"), Some("Tired")),
       audio |-> AudioData(Some("sad"), Some(-5), Some("unknown"))] }

unified_state(beval_data) ==
    [emotion |-> GetOr(beval_data.video.emotion, "neutral"),
     attention |-> GetOr(beval_data.video.attention_state, "Unknown"),
     posture |-> GetOr(beval_data.video.posture_state, "Unknown"),
     movement |-> GetOr(beval_data.video.movement_level, "Unknown"),
     fatigue |-> GetOr(beval_data.video.fatigue_level, "Normal"),
     sentiment |-> GetOr(beval_data.audio.sentiment, 0),
     confidence |-> GetOr(beval_data.audio.confidence_label, "medium")]

\* An attention score without the default for the states outside the map.
AttentionScoreNoDefault(state) ==
    CASE state.attention = "Focused" -> 90
      [] state.attention = "Partially Focused" -> 60
      [] state.attention = "Distracted" -> 30
      [] state.attention = "Unknown" -> 50
      [] OTHER -> 0

_calculate_attention_score(state) ==
    CASE state.attention = "Focused" -> 90
      [] state.attention = "Partially Focused" -> 60
      [] state.attention = "Distracted" -> 30
      [] OTHER -> 50

_calculate_engagement_level(state) ==
    IF /\ state.attention = "Focused"
       /\ state.emotion \in {"happy", "surprise"}
       /\ state.sentiment > 3
    THEN "high"
    ELSE IF /\ state.attention = "Distracted"
            /\ state.emotion \in {"sad", "angry"}
            /\ state.sentiment < -3
    THEN "low"
    ELSE "medium"

_calculate_stress_indicators(state) ==
    [k \in {StressKeyOrder[i] : i \in 1..Len(StressKeyOrder)} |->
        CASE k = "high_movement" -> state.movement = "High"
          [] k = "poor_posture" -> state.posture \in {"Fair", "Poor"}
          [] k = "negative_emotion" -> state.emotion \in {"sad", "angry", "fear"}
          [] k = "negative_sentiment" -> state.sentiment < -3
          [] OTHER -> FALSE]

\* In tenths.
_calculate_confidence_level(state) ==
    CASE state.confidence = "high" -> 9
      [] state.confidence = "medium" -> 6
      [] state.confidence = "low" -> 3
      [] OTHER -> 5

\* The VideoMetric _process_video_metric builds from a video sub-object.
CompanionVideo(sid, ts, video_data) ==
    VideoMetric(sid, ts, video_data.emotion, video_data.attention_state,
                video_data.posture_state, video_data.movement_level,
                video_data.fatigue_level)

\* An audio companion that takes its own reading of the clock, one second
\* after the event's.
CompanionAudioRestamped(sid, ts, audio_data) ==
    AudioMetric(sid, ts + 1, audio_data.emotion, audio_data.sentiment,
                IF audio_data.confidence_label \in {None, Some("")}
                THEN None ELSE audio_data.confidence_label)

\* The AudioMetric _process_audio_metric builds from an audio sub-object.
CompanionAudio(sid, ts, audio_data) ==
    AudioMetric(sid, ts, audio_data.emotion, audio_data.sentiment,
                IF audio_data.confidence_label \in {None, Some("")}
                THEN None ELSE audio_data.confidence_label)

\* The UnifiedMetric _process_unified_metric builds from a payload.
FusedMetric(sid, ts, beval_data) ==
    LET state == unified_state(beval_data)
    IN  UnifiedMetric(sid, ts, Some(state.emotion), Some(state.attention),
                      Some(state.posture), Some(state.movement),
                      Some(state.fatigue), Some(state.sentiment),
                      Some(state.confidence),
                      Some(_calculate_attention_score(state)),
                      Some(_calculate_engagement_level(state)),
                      Some(_calculate_stress_indicators(state)),
                      Some(_calculate_confidence_level(state)))

---------------------------------------------------------------------------
(* The ingest bridge: connect, collect, events, polling *)

\* unified_state events the bridge processes in SpecBridge.
MaxEvents == 2
\* The latest clock value of the polling loop in SpecBridge, in seconds.
MaxBridgeClock == 5
\* The latest clock value of the wait on the live channel in SpecBridge.
MaxWaitClock == 1

\* FUSION_SESSION_ID, the session main() collects to.
BridgeSession == "s1"

\* How the store answers the attempts of a companion save while the bridge
\* runs: free, or busy throughout.
CompanionMoods == {StoreFree, [i \in 1..max_retries |-> "locked"]}

\* How the store answers the attempts of the save of the fused record:
\* free, busy throughout, busy once, or failing with another error.
StoreMoods ==
    { StoreFree,
      [i \in 1..max_retries |-> "locked"],
      [i \in 1..max_retries |-> IF i = 1 THEN "locked" ELSE "ok"],
      [i \in 1..max_retries |-> "error"] }

\* One entry of the history for a finished save.
Logged(op, metric, run) ==
    [op |-> op, metric |-> metric, ret |-> run.ret, raised |-> run.raised]

\* An event handler that saves the fused record before the companions.
FusedFirst(beval_data, oV, oA, oU) ==
    LET sid == Get(bridge.current_session_id)
        video == CompanionVideo(sid, now, beval_data.video)
        audio == CompanionAudio(sid, now, beval_data.audio)
        fused == FusedMetric(sid, now, beval_data)
        v == SaveLoop(video_metrics, video, oV, 0, <<>>)
        a == SaveLoop(audio_metrics, audio, oA, 0, <<>>)
        u == SaveLoop(unified_metrics, fused, oU, 0, <<>>)
    IN  /\ video_metrics' = v.rows
        /\ audio_metrics' = a.rows
        /\ unified_metrics' = u.rows
        /\ call' = CallRecord("save_audio_metric", audio, oA,
                              Len(audio_metrics), a)
        /\ writeLog' = writeLog \o
              << Logged("save_unified_metric", fused, u),
                 Logged("save_video_metric", video, v),
                 Logged("save_audio_metric", audio, a) >>

\* _process_metric on a unified_state event: _process_unified_metric
\* derives the records, has _process_video_metric and
\* _process_audio_metric save the companions and then saves the fused
\* record.  No return value is looked at and every exception is caught and
\* logged.
_process_metric(beval_data, oV, oA, oU) ==
    IF bridge.current_session_id = None
    THEN UNCHANGED <<video_metrics, audio_metrics, unified_metrics, call,
                     writeLog>>
    ELSE
    LET sid == Get(bridge.current_session_id)
        video == CompanionVideo(sid, now, beval_data.video)
        audio == CompanionAudio(sid, now, beval_data.audio)
        fused == FusedMetric(sid, now, beval_data)
        v == SaveLoop(video_metrics, video, oV, 0, <<>>)
        a == SaveLoop(audio_metrics, audio, oA, 0, <<>>)
        u == SaveLoop(unified_metrics, fused, oU, 0, <<>>)
    IN  /\ video_metrics' = v.rows
        /\ audio_metrics' = a.rows
        /\ unified_metrics' = u.rows
        /\ call' = CallRecord("save_unified_metric", fused, oU,
                              Len(unified_metrics), u)
        /\ writeLog' = writeLog \o
              << Logged("save_video_metric", video, v),
                 Logged("save_audio_metric", audio, a),
                 Logged("save_unified_metric", fused, u) >>

\* connect(session_id), up to its return.  `live` tells whether
\* socketio_client.connect succeeds; o1 and o2 are what the INSERTs of the
\* create_session calls meet.  On an exception with use_socketio set the
\* method clears it and calls itself again.
connect(session_id, live, o1, o2) ==
    LET first == InsertSession(sessions, session_id, None, o1)
        again == InsertSession(first.rows, session_id, None, o2)
    IN  IF ~bridge.use_socketio
        THEN /\ bridge' = [bridge EXCEPT
                              !.current_session_id = Some(session_id),
                              !.is_connected = TRUE, !.pc = "connected"]
             /\ sessions' = first.rows
             /\ UNCHANGED channel
        ELSE IF live
        THEN /\ bridge' = [bridge EXCEPT
                              !.current_session_id = Some(session_id),
                              !.socketio_client = TRUE,
                              !.is_connected = TRUE, !.pc = "connected"]
             /\ sessions' = first.rows
             /\ channel' = [state |-> "open", request_data |-> TRUE]
        ELSE /\ bridge' = [bridge EXCEPT
                              !.current_session_id = Some(session_id),
                              !.socketio_client = TRUE,
                              !.use_socketio = FALSE,
                              !.is_connected = TRUE, !.pc = "connected"]
             /\ sessions' = again.rows
             /\ UNCHANGED channel

\* main(): `if await collector.connect(session_id):`
MainConnect ==
    /\ bridge.pc = "start"
    /\ \E live \in BOOLEAN, o1 \in Outcomes, o2 \in Outcomes :
          connect(BridgeSession, live, o1, o2)
    /\ UNCHANGED <<video_metrics, audio_metrics, unified_metrics, call, now,
                   writeLog, webui>>

\* collect_metrics(), up to its first await.
collect_metrics ==
    /\ bridge.pc = "connected"
    /\ bridge' = [bridge EXCEPT !.pc =
          IF ~bridge.is_connected THEN "returned"
          ELSE IF bridge.use_socketio /\ bridge.socketio_client
               THEN "waiting"
               ELSE "polling"]
    /\ UNCHANGED <<storeVars, now, writeLog, channel, webui>>

EventsProcessed == Len(writeLog) \div 3

\* The sensing process emits data_update (its 10 Hz broadcast or its
\* answer to request_data); on_data_update processes it.
on_data_update ==
    /\ bridge.pc = "waiting"
    /\ channel.state = "open"
    /\ EventsProcessed < MaxEvents
    /\ \E beval_data \in Payloads, oV \in CompanionMoods,
          oA \in CompanionMoods, oU \in StoreMoods : _process_metric(beval_data, oV, oA, oU)
    /\ channel' = [channel EXCEPT !.request_data = FALSE]
    /\ UNCHANGED <<sessions, now, bridge, webui>>

\* The live channel drops; on_disconnect runs.
on_disconnect ==
    /\ bridge.pc = "waiting"
    /\ channel.state = "open"
    /\ channel' = [state |-> "dropped", request_data |-> FALSE]
    /\ bridge' = [bridge EXCEPT !.is_connected = FALSE]
    /\ UNCHANGED <<storeVars, now, writeLog, webui>>

\* An on_connect that does not ask for the snapshot.
OnConnectSilent ==
    /\ bridge.pc = "waiting"
    /\ channel.state = "dropped"
    /\ channel' = [state |-> "open", request_data |-> FALSE]
    /\ UNCHANGED <<storeVars, now, writeLog, bridge, webui>>

\* The socketio client re-establishes the channel; on_connect runs.
on_connect ==
    /\ bridge.pc = "waiting"
    /\ channel.state = "dropped"
    /\ channel' = [state |-> "open", request_data |-> TRUE]
    /\ UNCHANGED <<storeVars, now, writeLog, bridge, webui>>

\* socketio_client.wait() ends (the client stops reconnecting, or raises):
\* collect_metrics returns.
WaitReturns ==
    /\ bridge.pc = "waiting"
    /\ channel.state = "dropped"
    /\ bridge' = [bridge EXCEPT !.is_connected = FALSE, !.pc = "returned"]
    /\ UNCHANGED <<storeVars, now, writeLog, channel, webui>>

\* main(): `finally: await collector.disconnect()`, and the process ends.
disconnect ==
    /\ bridge.pc = "returned"
    /\ bridge' = [bridge EXCEPT !.is_connected = FALSE, !.pc = "exited"]
    /\ channel' = NoChannel
    /\ UNCHANGED <<storeVars, now, writeLog, webui>>

\* What GET /api/data can give one round of the polling loop.
PollResults == {"200", "not 200", "RequestError", "not JSON"}

\* One round of the loop of _poll_metrics, its sleep included.
_poll_metrics ==
    /\ bridge.pc = "polling"
    /\ bridge.is_connected
    /\ \E result \in PollResults :
          LET slept == IF result = "not JSON" THEN 5 ELSE 1
          IN  /\ now + slept <= MaxBridgeClock
              /\ IF result = "200"
                 THEN /\ EventsProcessed < MaxEvents
                      /\ \E beval_data \in Payloads, oV \in CompanionMoods,
                            oA \in CompanionMoods, oU \in StoreMoods :
                            _process_metric(beval_data, oV, oA, oU)
                 ELSE UNCHANGED <<video_metrics, audio_metrics,
                                  unified_metrics, call, writeLog>>
              /\ bridge' = [bridge EXCEPT !.slept = slept]
              /\ now' = now + slept
    /\ UNCHANGED <<sessions, channel, webui>>

\* Time passes while the bridge waits on the live channel.
BridgeTick ==
    /\ bridge.pc = "waiting"
    /\ now < MaxWaitClock
    /\ now' = now + 1
    /\ UNCHANGED <<storeVars, clientVars>>

NextBridge ==
    \/ MainConnect
    \/ collect_metrics
    \/ on_data_update
    \/ on_disconnect
    \/ on_connect
    \/ WaitReturns
    \/ disconnect
    \/ _poll_metrics
    \/ BridgeTick

SpecBridge == InitStore /\ [][NextBridge]_vars

\* The bridge under the scheduling of its event loop: main() runs on, and
\* the socketio client keeps reconnecting a dropped channel.
SpecBridgeFair ==
    /\ InitStore
    /\ [][NextBridge]_vars
    /\ WF_vars(MainConnect)
    /\ WF_vars(collect_metrics)
    /\ WF_vars(on_connect)
    /\ WF_vars(disconnect)

---------------------------------------------------------------------------
(* Claims about the ingest bridge *)

\* The entries among the first n of the history that saved through op.
Successes(op, n) ==
    Cardinality({i \in 1..n : writeLog[i].op = op /\ writeLog[i].ret})

\* Entry i of the history and its table agree: a save that returned True
\* added the row of its metric, in its turn.
RowOfEntry(i) ==
    LET w == writeLog[i]
        tbl == TableOf(w.op)
        k == Successes(w.op, i)
    IN  w.ret => /\ k <= Len(tbl)
                 /\ tbl[k].session_id = w.metric.session_id
                 /\ tbl[k].timestamp = w.metric.timestamp

\* Every save of the bridge returned without raising, and each table holds
\* exactly the rows of the saves that returned True.
C2_DroppedQuietly ==
    /\ \A i \in 1..Len(writeLog) : ~writeLog[i].raised /\ RowOfEntry(i)
    /\ \A op \in SaveOps : Len(TableOf(op)) = Successes(op, Len(writeLog))

\* Processing an event leaves the bridge where it was, whatever its saves
\* returned; the polling loop sleeps its interval, not its error backoff.
C2_BridgeGoesOn ==
    [][EventsProcessed' > EventsProcessed =>
          /\ bridge'.pc = bridge.pc
          /\ bridge'.is_connected = bridge.is_connected
          /\ bridge'.current_session_id = bridge.current_session_id
          /\ bridge.pc = "polling" => bridge'.slept = 1]_vars

\* C2: a store write that fails after its retries (or with another store
\* error) drops the record: the save returns failure without raising, no
\* row is added for the record, the bridge goes on to the next event, and
\* the failure reaches no caller as an error.
C2_FailedWriteDropped == []C2_DroppedQuietly /\ C2_BridgeGoesOn

\* The fused record of the first event was dropped after its retries, and
\* the second event was stored.
C2_Witness ==
    /\ EventsProcessed = 2
    /\ ~writeLog[3].ret
    /\ writeLog[6].ret
    /\ Len(unified_metrics) = 1
    /\ unified_metrics[1].timestamp = writeLog[6].metric.timestamp
    /\ call.op = "save_unified_metric" /\ call.ret

\* C6 as claimed: after every unified_state event the video, audio and
\* unified tables each hold a row for that event.
C6_AllThreeTables ==
    /\ Len(video_metrics) = EventsProcessed
    /\ Len(audio_metrics) = EventsProcessed
    /\ Len(unified_metrics) = EventsProcessed

\* C6: for every unified_state event the save of the companion video
\* record and then the save of the companion audio record, both derived
\* from the event's sub-objects, are made before the save of the fused
\* record, all three under the event's session and timestamp; each of the
\* three tables holds a row for the event exactly when its own save
\* returned True, so all three do when the store took all three.
C6_CompanionsFirst ==
    /\ Len(writeLog) = 3 * EventsProcessed
    /\ \A e \in 1..EventsProcessed :
          LET v == writeLog[3 * e - 2]
              a == writeLog[3 * e - 1]
              u == writeLog[3 * e]
          IN  /\ v.op = "save_video_metric"
              /\ a.op = "save_audio_metric"
              /\ u.op = "save_unified_metric"
              /\ v.metric.session_id = u.metric.session_id
              /\ a.metric.session_id = u.metric.session_id
              /\ v.metric.timestamp = u.metric.timestamp
              /\ a.metric.timestamp = u.metric.timestamp
              /\ \E beval_data \in Payloads :
                    /\ v.metric = CompanionVideo(v.metric.session_id,
                                       v.metric.timestamp, beval_data.video)
                    /\ a.metric = CompanionAudio(a.metric.session_id,
                                       a.metric.timestamp, beval_data.audio)
                    /\ u.metric = FusedMetric(u.metric.session_id,
                                       u.metric.timestamp, beval_data)
    /\ \A i \in 1..Len(writeLog) : RowOfEntry(i)
    /\ \A op \in SaveOps : Len(TableOf(op)) = Successes(op, Len(writeLog))

\* Two events: the video companion of the first was dropped while its
\* fused record was stored; the second reached all three tables.
C6_Witness ==
    /\ EventsProcessed = 2
    /\ ~writeLog[1].ret /\ writeLog[2].ret /\ writeLog[3].ret
    /\ writeLog[4].ret /\ writeLog[5].ret /\ writeLog[6].ret
    /\ Len(video_metrics) = 1
    /\ Len(audio_metrics) = 2
    /\ Len(unified_metrics) = 2

C8_PollingFallback ==
    (bridge.pc \in {"connected", "polling"} /\ ~bridge.use_socketio) =>
        /\ bridge.is_connected
        /\ bridge.current_session_id = Some(BridgeSession)
        /\ Cardinality({i \in 1..Len(sessions) :
                          sessions[i].session_id = BridgeSession}) = 1
        /\ channel.state = "closed"
        /\ bridge.slept \in {0, 1, 5}

---------------------------------------------------------------------------
(* The analytics engine: get_context_for_convei *)

\* str.lower() on the emotion labels the pipeline carries.
Lower(text) ==
    CASE text = "Happy" -> "happy"
      [] text = "Sad" -> "sad"
      [] text = "Angry" -> "angry"
      [] text = "Neutral" -> "neutral"
      [] OTHER -> text

\* EMOTION_VALENCE.get(emotion, 0), in tenths.
EMOTION_VALENCE(emotion) ==
    CASE emotion = Some("happy") -> 10
      [] emotion = Some("surprise") -> 5
      [] emotion = Some("sad") -> -5
      [] emotion = Some("fear") -> -7
      [] emotion = Some("angry") -> -8
      [] emotion = Some("disgust") -> -6
      [] OTHER -> 0

Abs(n) == IF n < 0 THEN -n ELSE n

RECURSIVE SumSeq(_)
SumSeq(q) == IF q = <<>> THEN 0 ELSE Head(q) + SumSeq(Tail(q))

\* The result of _analyze_emotional_state when there is no current metric.
DefaultEmotionalState ==
    [primary_emotion |-> "neutral", intensity |-> "mild", valence |-> 0,
     empathy_needed |-> "low", complexity |-> "simple"]

\* _analyze_emotional_state raises on a row whose emotion (None.lower()),
\* sentiment (valence + None) or attention score (None > 70) is NULL.
EmotionalStateRaises(current) ==
    /\ current # None
    /\ \/ Get(current).unified_emotion = None
       \/ Get(current).unified_sentiment = None
       \/ Get(current).attention_score = None

\* _analyze_emotional_state(current) where it does not raise.  valence is
\* in twentieths; sentiment in tenths.
_analyze_emotional_state(current) ==
    IF current = None THEN DefaultEmotionalState
    ELSE
    LET row == Get(current)
        emotion == Lower(Get(row.unified_emotion))
        sentiment == Get(row.unified_sentiment)
        attention_score == Get(row.attention_score)
        fatigue == row.unified_fatigue
        intensity ==
            IF Abs(sentiment) > 4 THEN "strong"
            ELSE IF attention_score > 75 \/ attention_score < 35 THEN "strong"
            ELSE IF Abs(sentiment) > 2 THEN "moderate"
            ELSE "mild"
        empathy_needed ==
            IF emotion \in {"sad", "fear", "angry"}
            THEN IF intensity = "strong" THEN "very_high" ELSE "high"
            ELSE IF emotion \in {"surprise", "happy"} /\ intensity = "strong"
            THEN "moderate"
            ELSE "low"
        complexity ==
            IF emotion \in {"sad", "angry"} /\ sentiment > 0 THEN "mixed"
            ELSE IF fatigue # Some("Normal") /\ emotion # "neutral"
            THEN "complex"
            ELSE "simple"
    IN  [primary_emotion |-> emotion, intensity |-> intensity,
         valence |-> EMOTION_VALENCE(Some(emotion)) + sentiment,
         empathy_needed |-> empathy_needed, complexity |-> complexity,
         fatigue_factor |-> fatigue # Some("Normal"),
         engagement_level |-> row.engagement_level,
         attention_quality |-> IF attention_score > 70 THEN "high"
                               ELSE IF attention_score < 40 THEN "low"
                               ELSE "moderate"]

\* Counter(items).most_common(1)[0][0]: the most frequent item, the one
\* met first among equals.
MostCommon(items) ==
    LET count(i) == Cardinality({j \in 1..Len(items) : items[j] = items[i]})
        best == CHOOSE i \in 1..Len(items) :
                   /\ \A j \in 1..Len(items) : count(j) <= count(i)
                   /\ \A j \in 1..(i - 1) : count(j) < count(i)
    IN  items[best]

\* The result of _analyze_emotional_trends on fewer than two metrics.
DefaultTrends ==
    [emotion_stability |-> "unknown", sentiment_direction |-> "stable",
     attention_pattern |-> "unknown", emotional_arc |-> "flat"]

\* The values of column `field` of rows, NULLs left out.
NonNull(rows, field) ==
    LET present == SelectSeq(rows, LAMBDA r : r[field] # None)
    IN  [i \in 1..Len(present) |-> Get(present[i][field])]

\* A sentiment direction that compares the halves of any list.
SentimentDirectionUnguarded(sentiments) ==
    LET n1 == Len(sentiments) \div 2
        n2 == Len(sentiments) - n1
        s1 == SumSeq(SubSeq(sentiments, 1, n1))
        s2 == SumSeq(SubSeq(sentiments, n1 + 1, Len(sentiments)))
        d1 == IF n1 > 1 THEN n1 ELSE 1
        d2 == IF n2 > 1 THEN n2 ELSE 1
    IN  IF s2 * d1 > s1 * d2 + 2 * d1 * d2 THEN "improving"
        ELSE IF s2 * d1 < s1 * d2 - 2 * d1 * d2 THEN "declining"
        ELSE "stable"

\* sentiment_direction: with at least three sentiments, the mean of the
\* second half against the mean of the first half (the first
\* len // 2 values) with a margin of 0.2.  Sentiments are in tenths; the
\* means are compared after multiplying by both lengths, exactly (the
\* code's binary floating point can round either way when the means
\* differ by the margin itself).
SentimentDirection(sentiments) ==
    LET n1 == Len(sentiments) \div 2
        n2 == Len(sentiments) - n1
        s1 == SumSeq(SubSeq(sentiments, 1, n1))
        s2 == SumSeq(SubSeq(sentiments, n1 + 1, Len(sentiments)))
    IN  IF Len(sentiments) < 3 THEN "stable"
        ELSE IF s2 * n1 > s1 * n2 + 2 * n1 * n2 THEN "improving"
        ELSE IF s2 * n1 < s1 * n2 - 2 * n1 * n2 THEN "declining"
        ELSE "stable"

\* An emotional arc that does not look at a change of the dominant emotion.
EmotionalArcNoShift(emotions) ==
    LET half == Len(emotions) \div 2
        first_emotion == MostCommon(SubSeq(emotions, 1, half))
        second_emotion == MostCommon(SubSeq(emotions, half + 1, Len(emotions)))
    IN  IF EMOTION_VALENCE(second_emotion) > EMOTION_VALENCE(first_emotion) + 3
        THEN "brightening"
        ELSE IF EMOTION_VALENCE(second_emotion) <
                   EMOTION_VALENCE(first_emotion) - 3
        THEN "darkening"
        ELSE "flat"

\* emotional_arc: the valence of the most common emotion of the second
\* half against that of the first half (the first len // 2 emotions),
\* with a margin of 0.3.  Valences are in tenths.
EmotionalArc(emotions) ==
    LET half == Len(emotions) \div 2
        first_emotion == MostCommon(SubSeq(emotions, 1, half))
        second_emotion == MostCommon(SubSeq(emotions, half + 1, Len(emotions)))
        first_valence == EMOTION_VALENCE(first_emotion)
        second_valence == EMOTION_VALENCE(second_emotion)
    IN  IF second_valence > first_valence + 3 THEN "brightening"
        ELSE IF second_valence < first_valence - 3 THEN "darkening"
        ELSE IF second_emotion # first_emotion THEN "shifting"
        ELSE "flat"

_analyze_emotional_trends(metrics_range) ==
    IF Len(metrics_range) < 2 THEN DefaultTrends
    ELSE
    LET emotions == [i \in 1..Len(metrics_range) |->
                        metrics_range[i].unified_emotion]
        sentiments == NonNull(metrics_range, "unified_sentiment")
        attention_scores == NonNull(metrics_range, "attention_score")
        unique_emotions ==
            Cardinality({emotions[i] : i \in 1..Len(emotions)})
        n == Len(attention_scores)
        total == SumSeq(attention_scores)
        squares == SumSeq([i \in 1..n |->
                              attention_scores[i] * attention_scores[i]])
    IN  [emotion_stability |->
            IF unique_emotions <= 2 THEN "stable"
            ELSE IF unique_emotions <= 4 THEN "moderate" ELSE "volatile",
         sentiment_direction |-> SentimentDirection(sentiments),
         attention_pattern |->
            IF n < 3 THEN "consistent"
            ELSE IF n * squares - total * total > 400 * n * n
            THEN "fluctuating"
            ELSE IF attention_scores[n] < attention_scores[1] - 15
            THEN "declining"
            ELSE IF attention_scores[n] > attention_scores[1] + 15
            THEN "improving"
            ELSE "consistent",
         emotional_arc |-> EmotionalArc(emotions),
         dominant_emotion |-> MostCommon(emotions),
         emotion_sequence |->
            IF Len(emotions) >= 5
            THEN SubSeq(emotions, Len(emotions) - 4, Len(emotions))
            ELSE emotions]

\* Row i of the window counts as a stress indicator.
IsStress(metrics_range, i) ==
    LET m == metrics_range[i]
    IN  \/ m.unified_fatigue \in {Some("Moderate"), Some("Severe")}
        \/ /\ m.unified_emotion \in {Some("angry"), Some("fear")}
           /\ Get(m.attention_score) > 60

\* Row i of the window counts as an engagement drop.
IsDrop(metrics_range, i) ==
    /\ i > 1
    /\ Get(metrics_range[i].attention_score) <
          Get(metrics_range[i - 1].attention_score) - 20

\* Row i of the window counts as a positive moment.
IsPositive(metrics_range, i) ==
    \/ metrics_range[i].unified_emotion = Some("happy")
    \/ Get(metrics_range[i].unified_sentiment) > 4

\* _detect_behavioral_patterns raises when one of its comparisons meets a
\* NULL attention score or sentiment.
PatternsRaise(metrics_range) ==
    /\ Len(metrics_range) >= 3
    /\ \E i \in 1..Len(metrics_range) :
          LET m == metrics_range[i]
          IN  \/ /\ m.unified_fatigue \notin {Some("Moderate"), Some("Severe")}
                 /\ m.unified_emotion \in {Some("angry"), Some("fear")}
                 /\ m.attention_score = None
              \/ /\ i > 1
                 /\ \/ m.attention_score = None
                    \/ metrics_range[i - 1].attention_score = None
              \/ /\ m.unified_emotion # Some("happy")
                 /\ m.unified_sentiment = None

\* _assess_conversation_health
_assess_conversation_health(stress, drops, positive) ==
    IF positive > stress + drops THEN "positive"
    ELSE IF stress > 3 \/ drops > 3 THEN "concerning"
    ELSE IF stress > 0 \/ drops > 0 THEN "mixed"
    ELSE "neutral"

\* The engagement_drops list after the loop over rows 1..n of the window,
\* with the comparison `attention < prev_attention - margin`: one entry
\* per drop, appended in the order of the loop, the index counted from 0.
RECURSIVE DropsUpTo(_, _, _)
DropsUpTo(metrics_range, n, margin) ==
    IF n = 0 THEN <<>>
    ELSE LET before == DropsUpTo(metrics_range, n - 1, margin)
             attention == Get(metrics_range[n].attention_score)
             prev_attention == Get(metrics_range[n - 1].attention_score)
         IN  IF n > 1 /\ attention < prev_attention - margin
             THEN Append(before, [index |-> n - 1,
                                  drop_amount |-> prev_attention - attention])
             ELSE before

EngagementDrops(metrics_range) ==
    DropsUpTo(metrics_range, Len(metrics_range), 20)

\* _detect_behavioral_patterns(metrics_range) where it does not raise: the
\* indices (from 0) of the stress rows and of the positive rows, the list
\* of engagement drops, and the summary.
_detect_behavioral_patterns(metrics_range) ==
    IF Len(metrics_range) < 3 THEN [patterns_detected |-> FALSE]
    ELSE
    LET idx == 1..Len(metrics_range)
        stress == {i - 1 : i \in {j \in idx : IsStress(metrics_range, j)}}
        drops == {i - 1 : i \in {j \in idx : IsDrop(metrics_range, j)}}
        positive == {i - 1 : i \in {j \in idx : IsPositive(metrics_range, j)}}
    IN  [patterns_detected |-> TRUE, stress_indicators |-> stress,
         engagement_drops |-> EngagementDrops(metrics_range),
         positive_moments |-> positive,
         summary |->
            [stress_count |-> Cardinality(stress),
             engagement_drops_count |-> Cardinality(drops),
             positive_moments_count |-> Cardinality(positive),
             overall_health |->
                _assess_conversation_health(Cardinality(stress),
                    Cardinality(drops), Cardinality(positive))]]

\* Unified rows SpecAnalytics may hold.
MaxAnalyticsRows == 2
\* Steps the clock of SpecAnalytics makes.
MaxAnalyticsTicks == 2

\* The default time_window of get_context_for_convei, in seconds.
time_window == 30
\* One step of the clock of SpecAnalytics.
AnalyticsTick == time_window - 10

\* The unified metrics written in SpecAnalytics: one with every optional
\* column NULL, the two the bridge derives, and one a direct client writes.
AnalyticsSamples(sid, ts) ==
    { BlankUnified(sid, ts),
      [BlankUnified(sid, ts) EXCEPT !.unified_emotion = Some("Happy"),
                                    !.unified_sentiment = Some(5),
                                    !.attention_score = Some(90)] }
    \cup {FusedMetric(sid, ts, beval_data) : beval_data \in Payloads}

\* get_context_for_convei(session_id) with the default window and no
\* conversation context.  Any exception of the analysis is caught and the
\* empty dict returned: context is None then.
ContextFor(session_id) ==
    LET latest == SelectLatest(session_id)
        all_metrics == SelectRange(session_id, 0, now)
        current == IF latest # None THEN latest
                   ELSE IF all_metrics # <<>>
                   THEN Some(all_metrics[Len(all_metrics)])
                   ELSE None
        metrics_range == SelectRange(session_id, now - time_window, now)
        raised == \/ EmotionalStateRaises(current)
                  \/ PatternsRaise(metrics_range)
        emotional_state == _analyze_emotional_state(current)
    IN        [op |-> "get_context_for_convei", session_id |-> session_id,
               window |-> Len(metrics_range), current |-> current,
               context |->
                  IF raised THEN None
                  ELSE Some(
                    [current_state |->
                        IF current = None THEN "neutral"
                        ELSE Get(Get(current).unified_emotion),
                     recent_trends |->
                        _analyze_emotional_trends(metrics_range),
                     behavioral_patterns |->
                        _detect_behavioral_patterns(metrics_range),
                     emotional_intelligence |->
                        [primary_emotion |-> emotional_state.primary_emotion,
                         emotional_intensity |-> emotional_state.intensity,
                         emotional_valence |-> emotional_state.valence,
                         empathy_level_needed |->
                            emotional_state.empathy_needed]])]

get_context_for_convei(session_id) ==
    /\ call' = ContextFor(session_id)
    /\ UNCHANGED <<tables, outsideStore>>

AnalyticsSave ==
    /\ Len(unified_metrics) < MaxAnalyticsRows
    /\ \E sid \in SessionIds :
          \E metric \in AnalyticsSamples(sid, now) :
              save_unified_metric(metric, StoreFree)
    /\ UNCHANGED <<sessions, video_metrics, audio_metrics, outsideStore>>

AnalyticsClock ==
    /\ now < MaxAnalyticsTicks * AnalyticsTick
    /\ now' = now + AnalyticsTick
    /\ UNCHANGED <<storeVars, clientVars>>

AnalyticsContext ==
    \E session_id \in SessionIds : get_context_for_convei(session_id)

NextAnalytics ==
    \/ AnalyticsSave
    \/ AnalyticsClock
    \/ AnalyticsContext

SpecAnalytics == InitStore /\ [][NextAnalytics]_vars

\* C10: on a window of zero or one unified metrics, rows with NULL emotion,
\* sentiment or attention included, get_context_for_convei returns a
\* result that holds the emotional-state, trend and pattern sections with
\* their defaults: not an error and not an empty result.
C10_ThinDataNeverEmpty ==
    (call.op = "get_context_for_convei" /\ call.window <= 1) =>
        /\ call.context # None
        /\ Get(call.context).recent_trends = DefaultTrends
        /\ Get(call.context).behavioral_patterns =
              [patterns_detected |-> FALSE]
        /\ call.current = None =>
              /\ Get(call.context).emotional_intelligence.primary_emotion =
                    "neutral"
              /\ Get(call.context).emotional_intelligence.emotional_intensity =
                    "mild"

---------------------------------------------------------------------------
(* The query API: GET /api/metrics/aggregated/{session_id} *)

\* Rows the unified table holds in SpecAggregate.
MaxAggregateRows == 3
\* Steps the clock of SpecAggregate makes.
MaxAggregateTicks == 2

\* The default window of get_aggregated_metrics, in seconds.
aggregate_window == 60
\* One step of the clock of SpecAggregate.
AggregateTick == aggregate_window - 20

\* A mean that divides whatever the length of the list.
MeanUnguarded(values, default) ==
    [num |-> SumSeq(values), den |-> Len(values)]

\* sum(values) / len(values) if values else default: the quotient is kept
\* as numerator and denominator.
Mean(values, default) ==
    IF values = <<>> THEN [num |-> default, den |-> 1]
    ELSE [num |-> SumSeq(values), den |-> Len(values)]

\* [m.get("unified_emotion") for m in metrics if m.get("unified_emotion")]
TruthyEmotions(metrics) ==
    LET present == SelectSeq(metrics,
                       LAMBDA m : m.unified_emotion \notin {None, Some("")})
    IN  [i \in 1..Len(present) |-> present[i].unified_emotion]

\* get_aggregated_metrics(session_id, window): `body` is None for the
\* {"message": "No metrics in time window"} answer.  Sentiment averages
\* are in tenths.
get_aggregated_metrics(session_id, window) ==
    LET end_time == now
        start_time == end_time - window
        metrics == SelectRange(session_id, start_time, end_time)
        emotions == TruthyEmotions(metrics)
        sentiments == NonNull(metrics, "unified_sentiment")
        attention_scores == NonNull(metrics, "attention_score")
    IN  /\ call' =
              [op |-> "get_aggregated_metrics", session_id |-> session_id,
               window |-> window, at |-> now, status |-> 200,
               message |-> IF metrics = <<>>
                           THEN Some("No metrics in time window") ELSE None,
               body |->
                  IF metrics = <<>> THEN None
                  ELSE Some(
                    [window_seconds |-> window,
                     metric_count |-> Len(metrics),
                     dominant_emotion |->
                        IF emotions # <<>> THEN MostCommon(emotions)
                        ELSE Some("neutral"),
                     average_sentiment |-> Mean(sentiments, 0),
                     average_attention |-> Mean(attention_scores, 50),
                     time_range |->
                        [start |-> start_time, end |-> end_time]])]
        /\ UNCHANGED <<tables, outsideStore>>

AggregateSave ==
    /\ Len(unified_metrics) < MaxAggregateRows
    /\ \E sid \in SessionIds :
          \E metric \in AnalyticsSamples(sid, now) :
              save_unified_metric(metric, StoreFree)
    /\ UNCHANGED <<sessions, video_metrics, audio_metrics, outsideStore>>

AggregateClock ==
    /\ now < MaxAggregateTicks * AggregateTick
    /\ now' = now + AggregateTick
    /\ UNCHANGED <<storeVars, clientVars>>

AggregateRequest ==
    \E session_id \in SessionIds :
        get_aggregated_metrics(session_id, aggregate_window)

NextAggregate ==
    \/ AggregateSave
    \/ AggregateClock
    \/ AggregateRequest

SpecAggregate == InitStore /\ [][NextAggregate]_vars

\* The rowids of the unified rows of session sid stamped in
\* [at - window, at].
WindowIds(sid, at, window) ==
    {i \in 1..Len(unified_metrics) :
        /\ unified_metrics[i].session_id = sid
        /\ unified_metrics[i].timestamp >= at - window
        /\ unified_metrics[i].timestamp <= at}

\* The sum of column `field` over the rows whose rowid is in ids.
RECURSIVE SumColumn(_, _)
SumColumn(ids, field) ==
    IF ids = {} THEN 0
    ELSE LET i == CHOOSE j \in ids : TRUE
         IN  Get(unified_metrics[i][field]) + SumColumn(ids \ {i}, field)

\* The average the endpoint owes for column `field` over the rows ids.
OwedAverage(ids, field, default) ==
    LET present == {i \in ids : unified_metrics[i][field] # None}
    IN  IF present = {} THEN [num |-> default, den |-> 1]
        ELSE [num |-> SumColumn(present, field),
              den |-> Cardinality(present)]

\* C11: the windowed aggregate never divides by zero.  On a window with no
\* unified metric it answers the "No metrics in time window" message; on a
\* window with rows, metric_count is the number of rows in the window and
\* each average is taken over exactly the rows whose value is present,
\* the default (0.0 sentiment, 50.0 attention) standing in when no row has
\* the value.
C11_AggregateNeverDividesByZero ==
    call.op = "get_aggregated_metrics" =>
        LET ids == WindowIds(call.session_id, call.at, call.window)
        IN  /\ call.status = 200
            /\ ids = {} =>
                  /\ call.message = Some("No metrics in time window")
                  /\ call.body = None
            /\ ids # {} =>
                  /\ call.message = None
                  /\ call.body # None
                  /\ Get(call.body).metric_count = Cardinality(ids)
                  /\ Get(call.body).average_sentiment.den > 0
                  /\ Get(call.body).average_attention.den > 0
                  /\ Get(call.body).average_sentiment =
                        OwedAverage(ids, "unified_sentiment", 0)
                  /\ Get(call.body).average_attention =
                        OwedAverage(ids, "attention_score", 50)

\* The aggregate was asked over a window whose rows all lack sentiment and
\* attention score, next to a session with values.
C11_Witness ==
    /\ call.op = "get_aggregated_metrics"
    /\ call.body # None
    /\ Get(call.body).metric_count = 2
    /\ Get(call.body).average_sentiment = [num |-> 0, den |-> 1]
    /\ Get(call.body).average_attention = [num |-> 50, den |-> 1]
    /\ \E i \in 1..Len(unified_metrics) :
          unified_metrics[i].unified_sentiment # None

---------------------------------------------------------------------------
(* GET /api/report/{session_id}: the reported duration *)

\* Rows the three metric tables may hold together in SpecDuration.
MaxDurationRows == 2
\* Steps the clock of SpecDuration makes.
MaxDurationTicks == 2
\* One step of the clock of SpecDuration, in seconds.
DurationTick == 5000

\* The timestamps the clients of the store stamp their metrics with: two
\* in seconds, and three in milliseconds (100 s and 90000 s apart).
DurationStamps == {9000, 9100, 9000000, 9100000, 99000000}

DurationRows == Len(video_metrics) + Len(audio_metrics) + Len(unified_metrics)

DurationSaveVideo ==
    /\ DurationRows < MaxDurationRows
    /\ \E sid \in SessionIds, ts \in DurationStamps :
          save_video_metric(BlankVideo(sid, ts), StoreFree)
    /\ UNCHANGED <<sessions, audio_metrics, unified_metrics, outsideStore>>

DurationSaveAudio ==
    /\ DurationRows < MaxDurationRows
    /\ \E sid \in SessionIds, ts \in DurationStamps :
          save_audio_metric(BlankAudio(sid, ts), StoreFree)
    /\ UNCHANGED <<sessions, video_metrics, unified_metrics, outsideStore>>

DurationSaveUnified ==
    /\ DurationRows < MaxDurationRows
    /\ \E sid \in SessionIds, ts \in DurationStamps :
          save_unified_metric(BlankUnified(sid, ts), StoreFree)
    /\ UNCHANGED <<sessions, video_metrics, audio_metrics, outsideStore>>

DurationClock ==
    /\ now < MaxDurationTicks * DurationTick
    /\ now' = now + DurationTick
    /\ UNCHANGED <<storeVars, clientVars>>

DurationRequest ==
    \E session_id \in SessionIds : get_session_report(session_id)

NextDuration ==
    \/ DurationSaveVideo
    \/ DurationSaveAudio
    \/ DurationSaveUnified
    \/ DurationClock
    \/ DurationRequest

SpecDuration == InitStore /\ [][NextDuration]_vars

\* The first and last timestamp of the rows of session sid, of the last
\* two hours, in the tables the report of source `source` is built from.
SourceStamps(sid, source) ==
    LET of(tbl) == {tbl[i].timestamp : i \in
                      {j \in 1..Len(tbl) : /\ tbl[j].session_id = sid
                                           /\ tbl[j].timestamp > now - 7200}}
    IN  IF source = "unified" THEN of(unified_metrics)
        ELSE of(video_metrics) \cup of(audio_metrics)

\* The duration the sanity check owes for a first and a last timestamp, in
\* thousandths of a second.
SaneDuration(first, last) ==
    IF last <= first THEN 0
    ELSE IF last - first <= 86400 THEN (last - first) * 1000
    ELSE IF last - first <= 86400 * 1000 THEN last - first
    ELSE 86400 * 1000

\* C12: in every session report, whichever tables it is built from, the
\* duration is between 0 and 86400 s: a difference of last and first
\* timestamp above 24 h is divided by 1000 and used when that is at most
\* 24 h, and clamped to 86400 otherwise; it is 0 when the end is not after
\* the start.
C12_DurationSane ==
    (call.op = "get_session_report" /\ call.status = 200) =>
        LET stamps == SourceStamps(call.session_id, call.source)
            first == CHOOSE t \in stamps : \A u \in stamps : t <= u
            last == CHOOSE t \in stamps : \A u \in stamps : u <= t
        IN  /\ call.duration >= 0
            /\ call.duration <= 86400 * 1000
            /\ stamps # {} => call.duration = SaneDuration(first, last)

---------------------------------------------------------------------------
(* The ingest bridge: the derived fields of the unified record *)

\* unified_state events the bridge processes in SpecDerive.
MaxDeriveEvents == 2

\* The attention states and the confidence labels the events of
\* SpecDerive carry (None: the key is absent): the entries of the two
\* tables, and labels outside them.
AttentionStates ==
    {None, Some("Focused"), Some("Partially Focused"), Some("Distracted"),
     Some("Unknown"), Some("Drowsy")}

ConfidenceLabels ==
    {None, Some("high"), Some("medium"), Some("low"), Some("unknown"),
     Some("High")}

DerivePayloads ==
    {[video |-> IF attention = None /\ label = None THEN EmptyPayload.video
                ELSE VideoData(Some("neutral"), attention, Some("Good"),
                               Some("Low"), Some("Normal")),
      audio |-> IF label = None THEN EmptyPayload.audio
                ELSE AudioData(Some("neutral"), Some(0), label)] :
        attention \in AttentionStates, label \in ConfidenceLabels}

\* A unified_state event reaches the connected bridge, over the live
\* channel or by a poll, while the store is free.
DeriveEvent ==
    /\ bridge.pc \in {"waiting", "polling"}
    /\ bridge.is_connected
    /\ EventsProcessed < MaxDeriveEvents
    /\ \E beval_data \in DerivePayloads :
          _process_metric(beval_data, StoreFree, StoreFree, StoreFree)
    /\ UNCHANGED <<sessions, now, bridge, channel, webui>>

NextDerive ==
    \/ MainConnect
    \/ collect_metrics
    \/ DeriveEvent

SpecDerive == InitStore /\ [][NextDerive]_vars

\* The fixed table of the attention score.
AttentionTable(attention) ==
    CASE attention = Some("Focused") -> 90
      [] attention = Some("Partially Focused") -> 60
      [] attention = Some("Distracted") -> 30
      [] attention = Some("Unknown") -> 50
      [] OTHER -> 50

ConfidenceTable(label) ==
    CASE label = Some("high") -> 9
      [] label = Some("medium") -> 6
      [] label = Some("low") -> 3
      [] OTHER -> 5

\* C14: the confidence level stored with a unified record is 0.9 for the
\* label high, 0.6 for medium, 0.3 for low and 0.5 otherwise: 0.5 whenever
\* the event carries no confidence label or a label outside the three.
\* The label of event k is the one its companion audio record was built
\* from (entry 3k - 1 of the history; its fused record is entry 3k).
C14_ConfidenceDefault ==
    \A k \in 1..EventsProcessed :
        writeLog[3 * k].metric.confidence_level =
            Some(ConfidenceTable(writeLog[3 * k - 1].metric.confidence))

---------------------------------------------------------------------------
(* The analytics engine: engagement drops over a window *)

\* Rows of the window of SpecDrops.
MaxDropRows == 5

\* The attention scores of the rows of SpecDrops (None: NULL).
DropScores == {None, Some(30), Some(50), Some(65), Some(70), Some(90)}

\* The unified metrics written in SpecDrops: one with every optional
\* column NULL, and neutral ones with an attention score.
DropSamples(sid, ts) ==
    {IF score = None THEN BlankUnified(sid, ts)
     ELSE [BlankUnified(sid, ts) EXCEPT !.unified_emotion = Some("neutral"),
                                        !.unified_fatigue = Some("Normal"),
                                        !.unified_sentiment = Some(0),
                                        !.attention_score = score] :
        score \in DropScores}

\* A client stores the next metric of the session, one second after the
\* previous one.
DropsSave ==
    /\ Len(unified_metrics) < MaxDropRows
    /\ \E metric \in DropSamples(BridgeSession, now + 1) :
          save_unified_metric(metric, StoreFree)
    /\ now' = now + 1
    /\ UNCHANGED <<sessions, video_metrics, audio_metrics, clientVars>>

\* get_context_for_convei has _detect_behavioral_patterns look at the
\* window; `result` is None when the detection raises.
DropsDetect ==
    LET metrics_range == SelectRange(BridgeSession, now - time_window, now)
    IN  /\ call' = [op |-> "_detect_behavioral_patterns",
                    metrics_range |-> metrics_range,
                    result |-> IF PatternsRaise(metrics_range) THEN None
                               ELSE Some(_detect_behavioral_patterns(
                                            metrics_range))]
        /\ UNCHANGED <<tables, outsideStore>>

NextDrops ==
    \/ DropsSave
    \/ DropsDetect

SpecDrops == InitStore /\ [][NextDrops]_vars

\* The indices (from 0) at which a window owes an engagement drop.
OwedDrops(metrics_range) ==
    {i \in 1..(Len(metrics_range) - 1) :
        /\ metrics_range[i + 1].attention_score # None
        /\ metrics_range[i].attention_score # None
        /\ Get(metrics_range[i + 1].attention_score) <
              Get(metrics_range[i].attention_score) - 20}

\* The entries of `drops` are these of `owed`, in increasing index order,
\* each with the fall of the attention score as its drop_amount.
DropsAre(drops, owed, metrics_range) ==
    /\ {drops[k].index : k \in 1..Len(drops)} = owed
    /\ Len(drops) = Cardinality(owed)
    /\ \A k \in 1..(Len(drops) - 1) : drops[k].index < drops[k + 1].index
    /\ \A k \in 1..Len(drops) :
          drops[k].drop_amount =
              Get(metrics_range[drops[k].index].attention_score) -
              Get(metrics_range[drops[k].index + 1].attention_score)

\* C15: for any window of at least 3 unified metrics, engagement_drops
\* holds an entry with index i exactly when i >= 1 and attention_score[i] <
\* attention_score[i-1] - 20, in increasing index order, with drop_amount =
\* attention_score[i-1] - attention_score[i].
C15_EngagementDrops ==
    (call.op = "_detect_behavioral_patterns" /\ Len(call.metrics_range) >= 3)
        => /\ call.result # None
           /\ DropsAre(Get(call.result).engagement_drops,
                       OwedDrops(call.metrics_range), call.metrics_range)

\* What does hold: on a window of at least 3 metrics whose columns are all
\* present the list is the owed one; a window of 5 metrics whose only fall
\* is metric[2] = metric[1] - 25 has exactly one entry, at index 2.
C15_DropsWherePresent ==
    (call.op = "_detect_behavioral_patterns" /\ call.result # None
        /\ Len(call.metrics_range) >= 3)
        => /\ DropsAre(Get(call.result).engagement_drops,
                       OwedDrops(call.metrics_range), call.metrics_range)
           /\ ([i \in 1..Len(call.metrics_range) |->
                   call.metrics_range[i].attention_score] =
                 <<Some(90), Some(90), Some(65), Some(65), Some(65)>>)
                 => Get(call.result).engagement_drops =
                        <<[index |-> 2, drop_amount |-> 25]>>

---------------------------------------------------------------------------
(* The analytics engine: trends over a window *)

\* Rows of the window of SpecTrends.
MaxTrendRows == 3

TrendEmotions == {"sad", "happy", "angry"}
\* In tenths.
TrendSentiments == {-5, -4, 6}

\* The unified metrics written in SpecTrends: one with every optional
\* column NULL, and ones with an emotion and a sentiment.
TrendSamples(sid, ts) ==
    {BlankUnified(sid, ts)} \cup
    {[BlankUnified(sid, ts) EXCEPT !.unified_emotion = Some(emotion),
                                   !.unified_sentiment = Some(sentiment),
                                   !.attention_score = Some(50)] :
        emotion \in TrendEmotions, sentiment \in TrendSentiments}

\* A client stores the next metric of the session, one second after the
\* previous one.
TrendsSave ==
    /\ Len(unified_metrics) < MaxTrendRows
    /\ \E metric \in TrendSamples(BridgeSession, now + 1) :
          save_unified_metric(metric, StoreFree)
    /\ now' = now + 1
    /\ UNCHANGED <<sessions, video_metrics, audio_metrics, clientVars>>

\* get_context_for_convei has _analyze_emotional_trends look at the
\* window.
TrendsAnalyze ==
    LET metrics_range == SelectRange(BridgeSession, now - time_window, now)
    IN  /\ call' = [op |-> "_analyze_emotional_trends",
                    metrics_range |-> metrics_range,
                    result |-> _analyze_emotional_trends(metrics_range)]
        /\ UNCHANGED <<tables, outsideStore>>

NextTrends ==
    \/ TrendsSave
    \/ TrendsAnalyze

SpecTrends == InitStore /\ [][NextTrends]_vars

\* The sentiments of a window that are present, in the order of the
\* window.
WindowSentiments(metrics_range) ==
    LET present == SelectSeq(metrics_range,
                             LAMBDA m : m.unified_sentiment # None)
    IN  [i \in 1..Len(present) |-> Get(present[i].unified_sentiment)]

\* The direction by halves: q is split after its first Len(q) \div 2
\* values; a/b stands 0.2 above c/d when 10*a*d > 10*c*b + 2*b*d (the
\* values are tenths, so the factor 10 is dropped).
HalvesDirection(q) ==
    LET b == Len(q) \div 2
        d == Len(q) - b
        first == SumSeq(SubSeq(q, 1, b))
        second == SumSeq(SubSeq(q, b + 1, Len(q)))
    IN  IF second * b > first * d + 2 * b * d THEN "improving"
        ELSE IF second * b < first * d - 2 * b * d THEN "declining"
        ELSE "stable"

\* C16 as stated: the sentiment direction of a window is the comparison
\* of the means of the two halves of the window's sentiments, improving
\* or declining beyond a margin of 0.2 and stable otherwise (whenever each
\* half has a sentiment to take the mean of).
C16_DirectionByHalves ==
    (call.op = "_analyze_emotional_trends"
        /\ Len(WindowSentiments(call.metrics_range)) >= 2)
        => call.result.sentiment_direction =
              HalvesDirection(WindowSentiments(call.metrics_range))

\* C16, amended: the comparison by halves is made only on a window of at
\* least two metrics with at least three sentiments present; on any other
\* window the direction is stable.  Three metrics with emotions
\* [sad, sad, happy] and sentiments [-0.5, -0.4, 0.6] give dominant_emotion
\* sad, emotion_stability stable and sentiment_direction improving.
C16_SentimentDirection ==
    call.op = "_analyze_emotional_trends" =>
        LET q == WindowSentiments(call.metrics_range)
        IN  /\ call.result.sentiment_direction =
                  IF Len(call.metrics_range) >= 2 /\ Len(q) >= 3
                  THEN HalvesDirection(q) ELSE "stable"
            /\ ( /\ [i \in 1..Len(call.metrics_range) |->
                        call.metrics_range[i].unified_emotion] =
                        <<Some("sad"), Some("sad"), Some("happy")>>
                 /\ q = <<-5, -4, 6>> )
               => /\ call.result.dominant_emotion = Some("sad")
                  /\ call.result.emotion_stability = "stable"
                  /\ call.result.sentiment_direction = "improving"

\* The trends of the window [sad, sad, happy] with sentiments
\* [-0.5, -0.4, 0.6] were analysed.
C16_Witness ==
    /\ call.op = "_analyze_emotional_trends"
    /\ [i \in 1..Len(call.metrics_range) |->
           call.metrics_range[i].unified_emotion] =
           <<Some("sad"), Some("sad"), Some("happy")>>
    /\ WindowSentiments(call.metrics_range) = <<-5, -4, 6>>
    /\ call.result.sentiment_direction = "improving"

\* The emotions of a window, and the most common emotion of each half.
WindowEmotions(metrics_range) ==
    [i \in 1..Len(metrics_range) |-> metrics_range[i].unified_emotion]

\* C17: the emotional arc compares the lexicon valence of the dominant
\* emotion of the first half of the window with that of the second half:
\* brightening when the second exceeds the first by more than 0.3 (sad,
\* -0.5, to happy, +1.0), darkening when it is lower by more than 0.3,
\* shifting when the dominant emotion changed without crossing the
\* margin, flat otherwise; a window of one single emotion is flat.
C17_EmotionalArc ==
    call.op = "_analyze_emotional_trends" =>
        LET emotions == WindowEmotions(call.metrics_range)
            half == Len(emotions) \div 2
            first == MostCommon(SubSeq(emotions, 1, half))
            second == MostCommon(SubSeq(emotions, half + 1, Len(emotions)))
            arc == call.result.emotional_arc
        IN  /\ Len(emotions) >= 2 =>
                /\ arc = "brightening" <=>
                      EMOTION_VALENCE(second) > EMOTION_VALENCE(first) + 3
                /\ arc = "darkening" <=>
                      EMOTION_VALENCE(second) < EMOTION_VALENCE(first) - 3
                /\ arc = "shifting" <=>
                      /\ second # first
                      /\ EMOTION_VALENCE(second) <= EMOTION_VALENCE(first) + 3
                      /\ EMOTION_VALENCE(second) >= EMOTION_VALENCE(first) - 3
                /\ arc \in {"brightening", "darkening", "shifting", "flat"}
                /\ (first = Some("sad") /\ second = Some("happy"))
                      => arc = "brightening"
            /\ Cardinality({emotions[i] : i \in 1..Len(emotions)}) <= 1
                  => arc = "flat"

\* The arc of a window that brightens from sad to happy was computed.
C17_Witness ==
    /\ call.op = "_analyze_emotional_trends"
    /\ WindowEmotions(call.metrics_range) =
          <<Some("sad"), Some("happy"), Some("happy")>>
    /\ call.result.emotional_arc = "brightening"

---------------------------------------------------------------------------
(* The analytics engine: the emotional state of the current metric *)

\* Rows the unified table holds in SpecState.
MaxStateRows == 2

StateEmotions == {"fear", "sad", "neutral", "happy"}
\* In tenths.
StateSentiments == {-3, 0, 3}
StateFatigues == {"Normal", "Severe"}

\* The unified metrics written in SpecState: one with every optional
\* column NULL, and ones with an emotion, a sentiment and a fatigue level.
StateSamples(sid, ts) ==
    {BlankUnified(sid, ts)} \cup
    {[BlankUnified(sid, ts) EXCEPT !.unified_emotion = Some(emotion),
                                   !.unified_sentiment = Some(sentiment),
                                   !.unified_fatigue = Some(fatigue),
                                   !.attention_score = Some(50)] :
        emotion \in StateEmotions, sentiment \in StateSentiments,
        fatigue \in StateFatigues}

\* A client stores the next metric of the session, one second after the
\* previous one.
StateSave ==
    /\ Len(unified_metrics) < MaxStateRows
    /\ \E metric \in StateSamples(BridgeSession, now + 1) :
          save_unified_metric(metric, StoreFree)
    /\ now' = now + 1
    /\ UNCHANGED <<sessions, video_metrics, audio_metrics, clientVars>>

\* get_context_for_convei has _analyze_emotional_state look at the current
\* metric; `result` is None when the analysis raises.
StateAnalyze ==
    LET current == SelectLatest(BridgeSession)
    IN  /\ call' = [op |-> "_analyze_emotional_state", current |-> current,
                    result |-> IF EmotionalStateRaises(current) THEN None
                               ELSE Some(_analyze_emotional_state(current))]
        /\ UNCHANGED <<tables, outsideStore>>

NextState ==
    \/ StateSave
    \/ StateAnalyze

SpecState == InitStore /\ [][NextState]_vars

\* C18: the complexity of the emotional state is mixed when a negative
\* emotion (sad, angry, fear) goes with a positive sentiment, complex when
\* fatigue is elevated next to a non-neutral emotion, and simple in every
\* other case, for every emotion, sentiment sign and fatigue level.
C18_Complexity ==
    (call.op = "_analyze_emotional_state" /\ call.current # None
        /\ call.result # None)
        => LET row == Get(call.current)
               emotion == Lower(Get(row.unified_emotion))
               mixed == /\ emotion \in {"sad", "angry", "fear"}
                        /\ Get(row.unified_sentiment) > 0
               complex == /\ row.unified_fatigue \in
                                {Some("Mild"), Some("Moderate"), Some("Severe")}
                          /\ emotion # "neutral"
           IN  Get(call.result).complexity =
                  IF mixed THEN "mixed"
                  ELSE IF complex THEN "complex" ELSE "simple"

---------------------------------------------------------------------------
(* The sensing process: the realtime fan-out loop and the snapshot slot *)

\* Iterations the loop of _data_collection_worker begins.
MaxFanoutTicks == 2
\* Iterations the loop of _video_stream_worker makes.
MaxVideoTicks == 2
\* Reads of the snapshot slot by get_data and handle_data_request.
MaxReads == 2

\* The parts _collect_analyzer_data builds before it assigns the slot:
\* video_data, audio_data, objects_data, session_stats.
SnapshotParts == 4

\* fallback_data of _data_collection_worker.
FallbackData ==
    [video |-> -1, audio |-> -1, objects |-> -1, session_stats |-> -1]

\* A handler of the worker's `except Exception` that lets the loop end.
ExceptStops(w) == [w EXCEPT !.pc = "stopped", !.failed = TRUE]

\* `except Exception as e: print(...)`: the tick has failed; the fallback
\* data is pushed next.
ExceptHandler(w) == [w EXCEPT !.pc = "fallback", !.failed = TRUE]

\* An update of the slot in place, one key at a time.
PublishInPlace(w) ==
    LET d == w.latest_data
        k == w.tick
    IN  IF d.video # k
        THEN [w EXCEPT !.latest_data = [d EXCEPT !.video = k]]
        ELSE IF d.audio # k
        THEN [w EXCEPT !.latest_data = [d EXCEPT !.audio = k]]
        ELSE IF d.objects # k
        THEN [w EXCEPT !.latest_data = [d EXCEPT !.objects = k]]
        ELSE IF d.session_stats # k
        THEN [w EXCEPT !.latest_data = [d EXCEPT !.session_stats = k]]
        ELSE [w EXCEPT !.latest_data = [d EXCEPT !.timestamp = k],
                       !.pc = "emit"]

\* `self.latest_data = {...}`: the slot is bound to the new dict in one
\* assignment.
Publish(w) == [w EXCEPT !.latest_data = Snapshot(w.tick), !.pc = "emit"]

UIQuiet == UNCHANGED <<storeVars, now, writeLog, bridge, channel>>

\* start_analyzer: _start_data_collection starts the worker thread.
_start_data_collection ==
    /\ webui.pc = "idle"
    /\ webui' = [webui EXCEPT !.data_thread_active = TRUE, !.pc = "check"]
    /\ UIQuiet

\* stop_analyzer: _stop_data_collection clears the flag of the worker.
_stop_data_collection ==
    /\ webui.pc # "idle"
    /\ webui.data_thread_active
    /\ webui' = [webui EXCEPT !.data_thread_active = FALSE]
    /\ UIQuiet

\* `while self.data_thread_active and self.analyzer:`
WorkerCheck ==
    /\ webui.pc = "check"
    /\ IF webui.data_thread_active
       THEN /\ webui.tick < MaxFanoutTicks
            /\ webui' = [webui EXCEPT !.pc = "collect", !.tick = @ + 1,
                                      !.built = 0, !.failed = FALSE]
       ELSE webui' = [webui EXCEPT !.pc = "stopped"]
    /\ UIQuiet

\* _collect_analyzer_data builds the next part of the snapshot in a local.
CollectPart ==
    /\ webui.pc = "collect"
    /\ webui.built < SnapshotParts
    /\ webui' = [webui EXCEPT !.built = @ + 1]
    /\ UIQuiet

\* _collect_analyzer_data raises before it has assigned the slot.
CollectRaises ==
    /\ webui.pc = "collect"
    /\ webui.built < SnapshotParts
    /\ webui' = ExceptHandler(webui)
    /\ UIQuiet

\* _collect_analyzer_data assigns the slot and returns.
PublishSnapshot ==
    /\ webui.pc = "collect"
    /\ webui.built = SnapshotParts
    /\ webui' = Publish(webui)
    /\ UIQuiet

\* self.socketio.emit('data_update', self.latest_data): sent, or raising.
EmitSnapshot ==
    /\ webui.pc = "emit"
    /\ \E ok \in BOOLEAN :
          LET pushed == [webui EXCEPT !.pushes = Append(@,
                            [tick |-> webui.tick, kind |-> "snapshot",
                             payload |-> webui.latest_data, ok |-> ok])]
          IN  webui' = IF ok THEN [pushed EXCEPT !.pc = "sleep"]
                       ELSE ExceptHandler(pushed)
    /\ UIQuiet

\* The handler pushes fallback_data; a failure of that push is logged too.
EmitFallback ==
    /\ webui.pc = "fallback"
    /\ \E ok \in BOOLEAN :
          webui' = [webui EXCEPT !.pc = "sleep",
                       !.pushes = Append(@,
                          [tick |-> webui.tick, kind |-> "fallback",
                           payload |-> FallbackData, ok |-> ok])]
    /\ UIQuiet

\* time.sleep(0.1), at the end of the try block or of the handler.
WorkerSleep ==
    /\ webui.pc = "sleep"
    /\ webui' = [webui EXCEPT !.pc = "check"]
    /\ UIQuiet

\* GET /api/data: get_data evaluates self.latest_data.
get_data ==
    /\ webui.ref = None
    /\ webui.reads < MaxReads
    /\ webui' = [webui EXCEPT !.reads = @ + 1,
                    !.ref = Some([via |-> "get_data",
                                  data |-> webui.latest_data])]
    /\ UIQuiet

\* request_data: handle_data_request evaluates self.latest_data.
handle_data_request ==
    /\ webui.ref = None
    /\ webui.reads < MaxReads
    /\ webui' = [webui EXCEPT !.reads = @ + 1,
                    !.ref = Some([via |-> "handle_data_request",
                                  data |-> webui.latest_data])]
    /\ UIQuiet

\* The reader serializes the dict it holds (jsonify, emit) and answers.
ReaderSend ==
    /\ webui.ref # None
    /\ webui' = [webui EXCEPT !.seen = webui.ref, !.ref = None]
    /\ UIQuiet

\* _video_stream_worker, run from start_analyzer until _stop_video_stream:
\* one iteration sends a frame, finds none, or raises and is logged.
VideoOutcomes == {"sent", "no frame", "error"}

_start_video_stream ==
    /\ webui.video_pc = "idle"
    /\ webui' = [webui EXCEPT !.video_streaming = TRUE, !.video_pc = "run"]
    /\ UIQuiet

_video_stream_worker ==
    /\ webui.video_pc = "run"
    /\ IF webui.video_streaming
       THEN /\ Len(webui.frames) < MaxVideoTicks
            /\ \E outcome \in VideoOutcomes :
                  webui' = [webui EXCEPT !.frames = Append(@, outcome)]
       ELSE webui' = [webui EXCEPT !.video_pc = "stopped"]
    /\ UIQuiet

_stop_video_stream ==
    /\ webui.video_pc = "run"
    /\ webui.video_streaming
    /\ webui' = [webui EXCEPT !.video_streaming = FALSE]
    /\ UIQuiet

NextFanout ==
    \/ _start_data_collection
    \/ _stop_data_collection
    \/ WorkerCheck
    \/ CollectPart
    \/ CollectRaises
    \/ PublishSnapshot
    \/ EmitSnapshot
    \/ EmitFallback
    \/ WorkerSleep
    \/ _start_video_stream
    \/ _video_stream_worker
    \/ _stop_video_stream

SpecFanout == InitStore /\ [][NextFanout]_vars

NextSnapshot ==
    \/ _start_data_collection
    \/ WorkerCheck
    \/ CollectPart
    \/ CollectRaises
    \/ PublishSnapshot
    \/ EmitSnapshot
    \/ EmitFallback
    \/ WorkerSleep
    \/ get_data
    \/ handle_data_request
    \/ ReaderSend

SpecSnapshot == InitStore /\ [][NextSnapshot]_vars

\* The entries of the push history made in tick t, of one kind.
PushesOf(t, kind) ==
    {i \in 1..Len(webui.pushes) :
        webui.pushes[i].tick = t /\ webui.pushes[i].kind = kind}

\* C19: the fan-out loop survives push failures.  A tick in which the
\* collection or the push fails is logged and not retried: the snapshot is
\* pushed at most once per tick, and the only other push of a failed tick
\* is that of the fallback data.  The loop ends only when the fan-out was
\* made inactive, whatever failed before; and each tick that gets to push
\* pushes the snapshot collected in that tick.  The video stream loop ends
\* only when streaming was switched off.
C19_FanoutSurvives ==
    /\ webui.pc = "stopped" => ~webui.data_thread_active
    /\ webui.video_pc = "stopped" => ~webui.video_streaming
    /\ \A t \in 1..webui.tick :
          /\ Cardinality(PushesOf(t, "snapshot")) <= 1
          /\ Cardinality(PushesOf(t, "fallback")) <= 1
          /\ \A i \in PushesOf(t, "snapshot") :
                /\ webui.pushes[i].payload = Snapshot(t)
                /\ \A j \in PushesOf(t, "fallback") :
                      i < j /\ ~webui.pushes[i].ok
    /\ \A i \in 1..Len(webui.pushes) :
          /\ webui.pushes[i].tick \in 1..webui.tick
          /\ i > 1 => webui.pushes[i - 1].tick <= webui.pushes[i].tick
    /\ (webui.failed /\ webui.pc \in {"sleep", "check"}
          /\ webui.tick < MaxFanoutTicks /\ webui.data_thread_active)
          => ENABLED (WorkerSleep \/ WorkerCheck)

\* The push of the first tick failed, and the second tick pushed its own
\* snapshot while the fan-out was active.
C19_Witness ==
    /\ webui.data_thread_active
    /\ Len(webui.pushes) >= 2
    /\ webui.pushes[1].tick = 1
    /\ webui.pushes[1].kind = "snapshot"
    /\ ~webui.pushes[1].ok
    /\ \E i \in 2..Len(webui.pushes) :
          /\ webui.pushes[i].tick = 2
          /\ webui.pushes[i].kind = "snapshot"
          /\ webui.pushes[i].payload = Snapshot(2)
          /\ webui.pushes[i].ok

\* The snapshots of the collection cycles finished so far.
Published == {Snapshot(k) : k \in 0..webui.tick}

\* C20: the snapshot slot is replaced atomically.  At every moment the
\* slot holds the snapshot of one single finished collection cycle, and so
\* does what a reader running next to a collection cycle holds or has
\* sent: never parts of two cycles, and never the snapshot of the cycle
\* that is still being built.
C20_SnapshotAtomic ==
    /\ webui.latest_data \in Published
    /\ webui.pc = "collect" => webui.latest_data # Snapshot(webui.tick)
    /\ webui.ref # None =>
          /\ Get(webui.ref).data \in Published
          /\ webui.pc = "collect" => Get(webui.ref).data # Snapshot(webui.tick)
    /\ webui.seen # None => Get(webui.seen).data \in Published

\* A reader took the slot while the second collection cycle was half
\* built, and holds the snapshot of the first cycle.
C20_Witness ==
    /\ webui.pc = "collect"
    /\ webui.tick = 2
    /\ webui.built = 2
    /\ webui.ref # None
    /\ Get(webui.ref).data = Snapshot(1)

---------------------------------------------------------------------------
(* The sensing process: the life cycle of its three loops *)

\* Thread objects the sensing process starts in SpecLifecycle.
MaxThreads == 4
\* Calls of start_analyzer and stop_analyzer and toggle_video_stream events.
MaxCalls == 3
\* Iterations one worker thread begins.
MaxLaps == 2

\* The flag the loop of a worker tests at the head of each iteration.
LoopFlag(w, loop) ==
    CASE loop = "frame" -> w.frame_processing_active
      [] loop = "video" -> w.video_streaming
      [] loop = "data" -> w.data_thread_active

\* threading.Thread(target=<worker of the loop>, daemon=True), started.
\* laps counts the iterations begun; asked tells that stop_analyzer cleared
\* the flag of the loop while the thread was alive, missed that the thread
\* began an iteration after that, and late that it finished an iteration
\* after stop_analyzer had returned.
NewThread(loop) ==
    [loop |-> loop, pc |-> "check", laps |-> 0, asked |-> FALSE,
     missed |-> FALSE, late |-> FALSE]

\* _start_video_stream on the object w.
StartVideoStream(w) ==
    IF w.analyzer
    THEN [w EXCEPT !.threads = Append(@, NewThread("video")),
                   !.video_thread = Some(Len(w.threads) + 1)]
    ELSE w

\* The threads after the flag of a loop was cleared by stop_analyzer.
Ask(threads, loop) ==
    [i \in DOMAIN threads |->
        IF threads[i].loop = loop /\ threads[i].pc # "exited"
        THEN [threads[i] EXCEPT !.asked = TRUE]
        ELSE threads[i]]

\* `if self.x_thread: self.x_thread.join(timeout=...)`: the thread waited
\* for, and the iterations it had begun when the wait started.
JoinOn(w, ref) ==
    [target |-> ref,
     since |-> IF ref = None THEN 0 ELSE w.threads[Get(ref)].laps]

\* join(timeout) returns when the thread has ended, or gives up on a
\* thread that has begun another iteration since the wait started.
JoinReturns(w, j) ==
    IF j.target = None THEN TRUE
    ELSE \/ w.threads[Get(j.target)].pc = "exited"
         \/ w.threads[Get(j.target)].laps > j.since

\* start_analyzer on an analyzer that is not running, called by the
\* thread that also calls stop_analyzer; start_analysis() succeeds or
\* fails.
start_analyzer ==
    /\ ~webui.started
    /\ webui.stopping.pc = "idle"
    /\ webui.calls < MaxCalls
    /\ Len(webui.threads) + 3 <= MaxThreads
    /\ \E ok \in BOOLEAN :
          LET a == [webui EXCEPT !.analyzer = TRUE, !.calls = @ + 1]
              f == [a EXCEPT !.frame_processing_active = TRUE,
                             !.threads = Append(@, NewThread("frame")),
                             !.frame_processing_thread =
                                 Some(Len(a.threads) + 1),
                             !.video_streaming = TRUE,
                             !.started = TRUE, !.shutdown = FALSE]
              v == StartVideoStream(f)
              d == [v EXCEPT !.data_thread_active = TRUE,
                             !.threads = Append(@, NewThread("data")),
                             !.data_thread = Some(Len(v.threads) + 1)]
          IN  webui' = IF ok THEN d ELSE a
    /\ UIQuiet

\* stop_analyzer, up to the join of the frame processing thread.
stop_analyzer ==
    /\ webui.started
    /\ webui.stopping.pc = "idle"
    /\ webui.calls < MaxCalls
    /\ webui' = [webui EXCEPT
                    !.calls = @ + 1, !.started = FALSE,
                    !.frame_processing_active = FALSE,
                    !.threads = Ask(@, "frame"),
                    !.stopping = [pc |-> "frame"] @@
                        JoinOn(webui, webui.frame_processing_thread)]
    /\ UIQuiet

\* stop_analyzer: the join of the frame processing thread returns, the
\* analyzer is cleaned up, and _stop_data_collection runs up to its join.
StopFrameJoined ==
    /\ webui.stopping.pc = "frame"
    /\ JoinReturns(webui, webui.stopping)
    /\ webui' = [webui EXCEPT
                    !.frame_processing_thread =
                        IF webui.stopping.target = None THEN @ ELSE None,
                    !.data_thread_active = FALSE,
                    !.threads = Ask(@, "data"),
                    !.stopping = [pc |-> "data"] @@
                        JoinOn(webui, webui.data_thread)]
    /\ UIQuiet

\* stop_analyzer: the join of _stop_data_collection returns, and
\* _stop_video_stream runs up to its join.
StopDataJoined ==
    /\ webui.stopping.pc = "data"
    /\ JoinReturns(webui, webui.stopping)
    /\ webui' = [webui EXCEPT
                    !.data_thread =
                        IF webui.stopping.target = None THEN @ ELSE None,
                    !.video_streaming = FALSE,
                    !.threads = Ask(@, "video"),
                    !.stopping = [pc |-> "video"] @@
                        JoinOn(webui, webui.video_thread)]
    /\ UIQuiet

\* stop_analyzer: the join of _stop_video_stream returns, and stop_analyzer
\* returns.
StopVideoJoined ==
    /\ webui.stopping.pc = "video"
    /\ JoinReturns(webui, webui.stopping)
    /\ webui' = [webui EXCEPT
                    !.video_thread =
                        IF webui.stopping.target = None THEN @ ELSE None,
                    !.stopping = [pc |-> "idle", target |-> None,
                                  since |-> 0],
                    !.shutdown = ~webui.started]
    /\ UIQuiet

\* handle_video_toggle(data), up to the join of _stop_video_stream when it
\* stops the stream.
handle_video_toggle ==
    /\ webui.calls < MaxCalls
    /\ \E enabled \in BOOLEAN :
          LET w == [webui EXCEPT !.video_streaming = enabled,
                                 !.calls = @ + 1]
          IN  IF enabled /\ w.video_thread = None
              THEN /\ Len(w.threads) < MaxThreads
                   /\ webui' = StartVideoStream(w)
              ELSE IF ~enabled /\ w.video_thread # None
              THEN webui' = [w EXCEPT !.joining =
                                @ \cup {JoinOn(w, w.video_thread)}]
              ELSE webui' = w
    /\ UIQuiet

\* handle_video_toggle: the join of _stop_video_stream returns.
ToggleJoined ==
    /\ \E j \in webui.joining :
          /\ JoinReturns(webui, j)
          /\ webui' = [webui EXCEPT !.video_thread = None,
                                    !.joining = @ \ {j}]
    /\ UIQuiet

\* The head of the loop of a worker: `while self.<flag> and self.analyzer:`
LoopCheck ==
    /\ \E i \in DOMAIN webui.threads :
          LET t == webui.threads[i]
          IN  /\ t.pc = "check"
              /\ IF LoopFlag(webui, t.loop) /\ webui.analyzer
                 THEN /\ t.laps < MaxLaps
                      /\ webui' = [webui EXCEPT !.threads[i] =
                            [t EXCEPT !.pc = "tick", !.laps = @ + 1,
                                      !.missed = @ \/ t.asked]]
                 ELSE webui' = [webui EXCEPT !.threads[i].pc = "exited"]
    /\ UIQuiet

\* The body of the loop of a worker: a frame is processed, a frame is
\* pushed or the snapshot is collected and pushed (or the attempt is
\* logged), and the worker sleeps.
LoopTick ==
    /\ \E i \in DOMAIN webui.threads :
          LET t == webui.threads[i]
          IN  /\ t.pc = "tick"
              /\ webui' = [webui EXCEPT !.threads[i] =
                    [t EXCEPT !.pc = "check",
                              !.late = @ \/ webui.shutdown]]
    /\ UIQuiet

NextLifecycle ==
    \/ start_analyzer
    \/ stop_analyzer
    \/ StopFrameJoined
    \/ StopDataJoined
    \/ StopVideoJoined
    \/ handle_video_toggle
    \/ ToggleJoined
    \/ LoopCheck
    \/ LoopTick

SpecLifecycle == InitStore /\ [][NextLifecycle]_vars

\* C21: every long-running loop of the sensing process (state fan-out,
\* video-frame fan-out, frame processing) observes its shutdown flag: a
\* worker that was alive when stop_analyzer cleared the flag of its loop
\* begins no further iteration, and once stop_analyzer has returned no
\* worker finishes another iteration (push, frame capture).
C21_LoopsObserveShutdown ==
    \A i \in DOMAIN webui.threads :
        /\ ~webui.threads[i].missed
        /\ ~webui.threads[i].late

\* The video worker threads that have not ended.
VideoWorkers ==
    {i \in DOMAIN webui.threads :
        webui.threads[i].loop = "video" /\ webui.threads[i].pc # "exited"}

\* C27: at most one video-streaming worker thread is alive at any time,
\* under every interleaving of start_analyzer, stop_analyzer and
\* toggle_video_stream events; and whenever video_thread is unset no worker
\* is running.
C27_OneVideoWorker ==
    /\ Cardinality(VideoWorkers) <= 1
    /\ webui.video_thread = None => VideoWorkers = {}

---------------------------------------------------------------------------
(* The store: construction (MetricsDatabase.__init__ and _init_db) *)

\* MetricsDatabase objects constructed on one database file in SpecInit.
MaxConstructions == 2

\* max_retries and retry_delay (in milliseconds) of _init_db.
init_max_retries == 5
init_retry_delay == 500
\* timeout=30.0 of sqlite3.connect and PRAGMA busy_timeout=30000, in
\* milliseconds.
busy_timeout == 30000

\* The tables db/schema.sql creates, in the order of their dependencies
\* (init_db.py drops them in the reverse order).
SchemaOrder ==
    <<"sessions", "video_metrics", "audio_metrics", "unified_metrics">>
SchemaTables == {SchemaOrder[i] : i \in 1..Len(SchemaOrder)}

\* What the statements of one attempt of _init_db meet: connect opens the
\* file or fails; the busy_timeout PRAGMA and the SELECT on sqlite_master
\* run or find the database locked (or fail otherwise); the journal_mode
\* PRAGMA switches to WAL, answers the mode the file has, finds the
\* database locked or fails otherwise; executescript runs `made` of the
\* CREATE TABLE statements of the schema, each in autocommit, and then
\* ends, finds the database locked, fails otherwise, or the schema file
\* cannot be opened.
InitOutcomes ==
    { o \in [connect : {"ok", "error"},
             busy : {"ok", "locked"},
             wal : {"wal", "as is", "locked", "error"},
             select : {"ok", "locked", "error"},
             made : 0..Len(SchemaOrder),
             script : {"ok", "locked", "error", "no file"}] :
        /\ o.script = "ok" => o.made = Len(SchemaOrder)
        /\ o.script = "no file" => o.made = 0
        /\ o.script \in {"locked", "error"} => o.made < Len(SchemaOrder)
        \* statements an attempt does not reach are left at their first value
        /\ o.connect = "error" => o.busy = "ok"
        /\ (o.connect = "error" \/ o.busy # "ok") => o.wal = "wal"
        /\ (o.connect = "error" \/ o.busy # "ok" \/ o.wal = "error")
              => o.select = "ok"
        /\ (o.connect = "error" \/ o.busy # "ok" \/ o.wal = "error"
              \/ o.select # "ok") => (o.script = "ok") }

\* The database file before any construction: no table, rollback journal.
NewFile == [schema |-> {}, journal_mode |-> "delete"]

\* __init__ of the n-th object up to the loop of _init_db: self.conn = None.
InitCall(file, n) ==
    [op |-> "_init_db", object |-> n, status |-> "running", attempt |-> 0,
     sleeps |-> <<>>, conn |-> "none", timeout |-> 0,
     schema |-> file.schema, journal_mode |-> file.journal_mode]

\* `except sqlite3.OperationalError` of _init_db on "database is locked":
\* close, sleep retry_delay * (attempt + 1) and try again, or raise after
\* the last attempt.
InitLocked(c) ==
    IF c.attempt < init_max_retries - 1
    THEN [c EXCEPT !.conn = "closed", !.attempt = @ + 1,
                   !.sleeps = Append(@, init_retry_delay * (c.attempt + 1))]
    ELSE [c EXCEPT !.conn = "closed", !.attempt = @ + 1,
                   !.status = "raised"]

\* Any other exception: close and raise.
InitRaises(c) ==
    [c EXCEPT !.conn = IF c.conn = "none" THEN "none" ELSE "closed",
              !.attempt = @ + 1, !.status = "raised"]

\* The tables on file after executescript ran `made` statements of the
\* schema.
AfterScript(schema, made) == schema \cup {SchemaOrder[i] : i \in 1..made}

\* One pass of the loop of _init_db on the call record c, meeting o.
InitAttempt(c, o) ==
    IF o.connect = "error" THEN InitRaises(c)
    ELSE
    LET opened == [c EXCEPT !.conn = "open", !.timeout = busy_timeout]
    IN  IF o.busy = "locked" THEN InitLocked(opened)
        ELSE IF o.wal = "error" THEN InitRaises(opened)
        ELSE
        LET moded == IF o.wal = "wal"
                     THEN [opened EXCEPT !.journal_mode = "wal"]
                     ELSE opened
        IN  IF o.select = "locked" THEN InitLocked(moded)
            ELSE IF o.select = "error" THEN InitRaises(moded)
            ELSE IF "sessions" \in moded.schema
            THEN [moded EXCEPT !.attempt = @ + 1, !.status = "returned"]
            ELSE
            LET created == [moded EXCEPT
                               !.schema = AfterScript(@, o.made)]
            IN  CASE o.script = "ok" ->
                       [created EXCEPT !.attempt = @ + 1,
                                       !.status = "returned"]
                  [] o.script = "locked" -> InitLocked(created)
                  [] OTHER -> InitRaises(created)

\* A process constructs a MetricsDatabase on the file.
Construct ==
    /\ IF call.op = "none"
       THEN call' = InitCall(NewFile, 1)
       ELSE /\ call.op = "_init_db"
            /\ call.status # "running"
            /\ call.object < MaxConstructions
            /\ call' = InitCall([schema |-> call.schema,
                                 journal_mode |-> call.journal_mode],
                                call.object + 1)
    /\ UNCHANGED <<sessions, video_metrics, audio_metrics, unified_metrics,
                   outsideStore>>

\* The next pass of the loop of _init_db.
InitPass ==
    /\ call.op = "_init_db"
    /\ call.status = "running"
    /\ \E o \in InitOutcomes : call' = InitAttempt(call, o)
    /\ UNCHANGED <<sessions, video_metrics, audio_metrics, unified_metrics,
                   outsideStore>>

NextInit ==
    \/ Construct
    \/ InitPass

SpecInit == InitStore /\ [][NextInit]_vars

\* C22: store initialization failure is fatal.  A construction of
\* MetricsDatabase that returns has an open connection and the whole
\* schema (sessions, video_metrics, audio_metrics, unified_metrics) on
\* file; otherwise it raises, with the connection closed.  It makes at most
\* 5 attempts, and when every attempt found the database locked it raises
\* after the fifth, having slept 0.5 s, 1 s, 1.5 s and 2 s in between.
C22_InitFatal ==
    call.op = "_init_db" =>
        /\ call.attempt <= init_max_retries
        /\ call.status = "returned" =>
              /\ call.conn = "open"
              /\ call.schema = SchemaTables
        /\ call.status = "raised" => call.conn # "open"
        /\ call.status = "running" =>
              call.sleeps = [i \in 1..call.attempt |-> init_retry_delay * i]
        /\ call.attempt = init_max_retries => call.status # "running"

\* C23: whenever initialization succeeds, the handle has a busy-wait
\* timeout of at least 30 s and the database is in write-ahead (WAL)
\* journal mode, also when the database was locked during initialization.
C23_BusyTimeoutAndWal ==
    (call.op = "_init_db" /\ call.status = "returned") =>
        /\ call.timeout >= 30000
        /\ call.journal_mode = "wal"

---------------------------------------------------------------------------
(* Claims about the snapshot request on connect *)

\* The live channel is established in this step: by connect(), or again by
\* the socketio client after a drop.
ChannelOpens == channel.state # "open" /\ channel'.state = "open"

\* The snapshot request of the connection is answered in this step: the
\* reply of handle_data_request reaches on_data_update.
RequestAnswered ==
    channel.request_data /\ ~channel'.request_data /\ channel'.state = "open"

\* C24 as claimed: every live connection gets its snapshot request
\* answered by a reply that is stored, so that the unified table gains a
\* record for it.
C24_RecordPerConnection ==
    [][/\ ChannelOpens => channel'.request_data
       /\ RequestAnswered => Len(unified_metrics') = Len(unified_metrics) + 1
      ]_vars

\* C24: each time the live channel is established (by connect() and by
\* every later reconnection) the bridge sends request_data at once; the
\* reply is processed as one unified_state event of the bridge's session,
\* whose three saves are made; and the unified table gains a record for the
\* connection exactly when the save of the fused record returned True.
C24_RequestOnConnect ==
    [][/\ ChannelOpens => channel'.request_data
       /\ RequestAnswered =>
             /\ Len(writeLog') = Len(writeLog) + 3
             /\ LET u == writeLog'[Len(writeLog')]
                IN  /\ u.op = "save_unified_metric"
                    /\ u.metric.session_id = BridgeSession
                    /\ u.metric.timestamp = now
                    /\ Len(unified_metrics') =
                          Len(unified_metrics) + (IF u.ret THEN 1 ELSE 0)
      ]_vars

\* The channel dropped and was established again, and the reply to the
\* request of the new connection was stored.
C24_Witness ==
    /\ channel.state = "open"
    /\ ~channel.request_data
    /\ ~bridge.is_connected
    /\ EventsProcessed >= 1
    /\ writeLog[Len(writeLog)].ret
    /\ Len(unified_metrics) >= 1
    /\ unified_metrics[Len(unified_metrics)].session_id = BridgeSession

---------------------------------------------------------------------------
(* Claims about the polling loop *)

\* A round of the polling loop is made in this step.
PollRound == bridge.pc = "polling" /\ now' # now

\* C25: in polling mode a poll that fails (endpoint unreachable, request
\* error, bad response: no event is processed) is followed by a wait of
\* 5 s, a successful poll by the normal interval of 1 s, and the loop keeps
\* running whatever failed.
C25_PollBackoff ==
    [][PollRound =>
          /\ bridge'.slept =
                (IF EventsProcessed' > EventsProcessed THEN 1 ELSE 5)
          /\ now' = now + bridge'.slept
          /\ bridge'.pc = "polling"
          /\ bridge'.is_connected
      ]_vars

---------------------------------------------------------------------------
(* The ingest bridge: dispatch of an inbound event on its type tag *)

\* Saves the bridge makes in SpecDispatch.
MaxDispatchSaves == 3

\* The type tags inbound events carry; None is an event without the key.
EventTags ==
    {None, Some("video_analysis"), Some("audio_analysis"),
     Some("unified_state"), Some("heartbeat")}

\* The events handed to _process_metric.
Events == [type : EventTags, data : Payloads]

\* The tags _process_metric has a branch for.
KnownTags ==
    {Some("video_analysis"), Some("audio_analysis"), Some("unified_state")}

\* _process_metric is entered with the event.
Called(event) == [op |-> "_process_metric", event |-> event,
                  status |-> "called"]

\* _process_metric returns without having called the store.
Returned(c) == [c EXCEPT !.status = "returned"]

\* _process_video_metric or _process_audio_metric on their own: one save.
ProcessOne(op, tbl, metric, outcomes) ==
    LET run == SaveLoop(tbl, metric, outcomes, 0, <<>>)
    IN  /\ call' = CallRecord(op, metric, outcomes, Len(tbl), run)
        /\ writeLog' = writeLog \o <<Logged(op, metric, run)>>
        /\ IF op = "save_video_metric"
           THEN /\ video_metrics' = run.rows
                /\ UNCHANGED <<audio_metrics, unified_metrics>>
           ELSE /\ audio_metrics' = run.rows
                /\ UNCHANGED <<video_metrics, unified_metrics>>

\* A dispatch whose last branch takes every other tag for unified_state.
DispatchAnyAsUnified(event, oV, oA, oU) ==
    IF bridge.current_session_id = None
    THEN /\ call' = Returned(call)
         /\ UNCHANGED <<video_metrics, audio_metrics, unified_metrics,
                        writeLog>>
    ELSE _process_metric(event.data, oV, oA, oU)

\* _process_metric(data): nothing without a session; otherwise the branch
\* of data.get("type", "unknown"), and nothing for any other tag.
Dispatch(event, oV, oA, oU) ==
    LET sid == Get(bridge.current_session_id)
    IN  IF bridge.current_session_id = None
        THEN /\ call' = Returned(call)
             /\ UNCHANGED <<video_metrics, audio_metrics, unified_metrics,
                            writeLog>>
        ELSE IF event.type = Some("video_analysis")
        THEN ProcessOne("save_video_metric", video_metrics,
                        CompanionVideo(sid, now, event.data.video), oV)
        ELSE IF event.type = Some("audio_analysis")
        THEN ProcessOne("save_audio_metric", audio_metrics,
                        CompanionAudio(sid, now, event.data.audio), oA)
        ELSE IF event.type = Some("unified_state")
        THEN _process_metric(event.data, oV, oA, oU)
        ELSE /\ call' = Returned(call)
             /\ UNCHANGED <<video_metrics, audio_metrics, unified_metrics,
                            writeLog>>

\* The bridge is not inside _process_metric.
DispatchIdle == ~(call.op = "_process_metric" /\ call.status = "called")

\* An event reaches _process_metric.
EventArrives ==
    /\ DispatchIdle
    /\ Len(writeLog) < MaxDispatchSaves
    /\ \E event \in Events : call' = Called(event)
    /\ UNCHANGED <<sessions, video_metrics, audio_metrics, unified_metrics,
                   outsideStore>>

\* _process_metric runs on the event, up to its return.
EventProcessed ==
    /\ ~DispatchIdle
    /\ \E oV \in CompanionMoods, oA \in CompanionMoods, oU \in StoreMoods :
          Dispatch(call.event, oV, oA, oU)
    /\ UNCHANGED <<sessions, now, bridge, channel, webui>>

\* main() connects between two events.
DispatchConnect == DispatchIdle /\ MainConnect

\* The live channel drops between two events.
DispatchDrop ==
    /\ DispatchIdle
    /\ bridge.is_connected
    /\ bridge' = [bridge EXCEPT !.is_connected = FALSE]
    /\ UNCHANGED <<storeVars, now, writeLog, channel, webui>>

NextDispatch ==
    \/ DispatchConnect
    \/ DispatchDrop
    \/ EventArrives
    \/ EventProcessed

SpecDispatch == InitStore /\ [][NextDispatch]_vars

\* C26: an inbound event whose type tag is none of video_analysis,
\* audio_analysis and unified_state, or that has no tag, is ignored:
\* _process_metric returns without an error, no row is written to any
\* table, no save is attempted, and the connection state and the session
\* of the bridge are as before.  The same holds for every event that
\* arrives while no session is set.
C26_UnknownIgnored ==
    [][(/\ ~DispatchIdle
        /\ \/ call.event.type \notin KnownTags
           \/ bridge.current_session_id = None)
       => /\ call' = Returned(call)
          /\ tables' = tables
          /\ writeLog' = writeLog
          /\ bridge' = bridge
      ]_vars

\* An event without a tag was ignored by a bridge that has a session and
\* has stored the rows of a video_analysis and of an audio_analysis event.
C26_Witness ==
    /\ call.op = "_process_metric"
    /\ call.status = "returned"
    /\ call.event.type = None
    /\ bridge.current_session_id = Some(BridgeSession)
    /\ Len(writeLog) = 2
    /\ Len(video_metrics) = 1
    /\ Len(audio_metrics) = 1


---------------------------------------------------------------------------
(* The three routes that resolve 'current', over one store and one clock *)

\* Steps the clock of SpecCurrent makes.
MaxCurrentTicks == 2
\* One step of the clock of SpecCurrent: the recency window of the report.
CurrentTick == 3600

\* ORDER BY last_time ASC LIMIT 1 over the unified table.
EarliestWithMetrics ==
    LET groups == GroupBySession(unified_metrics)
    IN  {g \in groups : \A h \in groups : g.last_time <= h.last_time}

\* SELECT session_id, MAX(timestamp) AS last_time FROM unified_metrics
\* GROUP BY session_id ORDER BY last_time DESC LIMIT 1: the groups the
\* statement may return.
LatestWithMetrics == FirstGroups(GroupBySession(unified_metrics), FALSE)

\* GET /api/metrics/current/{session_id}
route_get_current_metrics(session_id) ==
    /\ IF session_id = "current"
       THEN IF LatestWithMetrics = {}
            THEN call' = [op |-> "route_get_current_metrics",
                          requested |-> session_id, status |-> 404,
                          session_id |-> session_id, row |-> None]
            ELSE \E g \in LatestWithMetrics :
                    call' = [op |-> "route_get_current_metrics",
                             requested |-> session_id,
                             status |-> IF SelectLatest(g.session_id) = None
                                        THEN 404 ELSE 200,
                             session_id |-> g.session_id,
                             row |-> SelectLatest(g.session_id)]
       ELSE call' = [op |-> "route_get_current_metrics",
                     requested |-> session_id,
                     status |-> IF SelectLatest(session_id) = None
                                THEN 404 ELSE 200,
                     session_id |-> session_id,
                     row |-> SelectLatest(session_id)]
    /\ UNCHANGED <<tables, outsideStore>>

\* GET /api/metrics/context/{session_id}
get_context_for_convei_get(session_id) ==
    /\ IF session_id = "current" \/ session_id = ""
       THEN IF LatestWithMetrics = {}
            THEN call' = [op |-> "get_context_for_convei_get",
                          requested |-> session_id, status |-> 200,
                          session_id |-> "current_session",
                          context |-> ContextFor("current_session").context]
            ELSE \E g \in LatestWithMetrics :
                    call' = [op |-> "get_context_for_convei_get",
                             requested |-> session_id, status |-> 200,
                             session_id |-> g.session_id,
                             context |-> ContextFor(g.session_id).context]
       ELSE call' = [op |-> "get_context_for_convei_get",
                     requested |-> session_id, status |-> 200,
                     session_id |-> session_id,
                     context |-> ContextFor(session_id).context]
    /\ UNCHANGED <<tables, outsideStore>>

CurrentClock ==
    /\ now < MaxCurrentTicks * CurrentTick
    /\ now' = now + CurrentTick
    /\ UNCHANGED <<storeVars, clientVars>>

CurrentMetricsRequest ==
    \E session_id \in {"current"} \cup SessionIds :
        route_get_current_metrics(session_id)

CurrentContextRequest ==
    \E session_id \in {"current", ""} \cup SessionIds :
        get_context_for_convei_get(session_id)

NextCurrent ==
    \/ ReportSaveVideo
    \/ ReportSaveAudio
    \/ ReportSaveUnified
    \/ CurrentClock
    \/ ReportRequest
    \/ CurrentMetricsRequest
    \/ CurrentContextRequest

SpecCurrent == InitStore /\ [][NextCurrent]_vars

\* C28: whenever the report route resolves 'current' to a session, through
\* any tier, the report it returns for that session has total_data_points
\* greater than zero: it never resolves a session and then reports it as
\* having no data.
C28_ResolvedHasData ==
    (/\ call.op = "get_session_report"
     /\ call.requested \in CurrentNames
     /\ call.status = 200)
        => call.total_data_points > 0

\* The routes that resolve 'current'.
CurrentRoutes ==
    {"get_session_report", "route_get_current_metrics",
     "get_context_for_convei_get"}

\* The unified table has a row within the last hour and one session alone
\* holds its greatest timestamp.
FreshAndUnique ==
    /\ After(unified_metrics, Some(now - 3600)) # <<>>
    /\ Cardinality(MostRecent(unified_metrics)) = 1

\* C29: when the unified table has a row within the last hour and a unique
\* session holds the greatest unified timestamp, the current-metrics route,
\* the context route and the report route all resolve 'current' to that
\* session.
C29_SameCurrent ==
    (/\ call.op \in CurrentRoutes
     /\ call.requested = "current"
     /\ FreshAndUnique)
        => /\ call.status = 200
           /\ call.session_id \in MostRecent(unified_metrics)

\* The context route resolved 'current' while both sessions hold unified
\* rows and the session with the greatest timestamp holds fewer of them.
C29_Witness ==
    /\ call.op = "get_context_for_convei_get"
    /\ call.requested = "current"
    /\ FreshAndUnique
    /\ \E sid \in SessionIds :
          /\ sid # call.session_id
          /\ Len(SelectSeq(unified_metrics, LAMBDA r : r.session_id = sid))
               > Len(SelectSeq(unified_metrics,
                               LAMBDA r : r.session_id = call.session_id))


---------------------------------------------------------------------------
(* The three records of one unified_state event share their key *)

\* The unified_state event whose fused record is row k of the unified
\* table.
EventOfRow(k) ==
    CHOOSE e \in 1..EventsProcessed :
        /\ writeLog[3 * e].ret
        /\ Successes("save_unified_metric", 3 * e) = k

\* tbl holds a row under the session and timestamp of row.
HasKeyOf(tbl, row) ==
    \E i \in 1..Len(tbl) :
        /\ tbl[i].session_id = row.session_id
        /\ tbl[i].timestamp = row.timestamp

\* C30: the video, audio and unified records produced for one
\* unified_state event carry the same session id and the same timestamp,
\* taken once for the event: for every row of the unified table whose
\* companion saves succeeded, the video table and the audio table each
\* hold a row with that row's session id and timestamp.
C30_SharedKey ==
    \A k \in 1..Len(unified_metrics) :
        LET e == EventOfRow(k)
        IN  writeLog[3 * e - 2].ret /\ writeLog[3 * e - 1].ret
               => /\ HasKeyOf(video_metrics, unified_metrics[k])
                  /\ HasKeyOf(audio_metrics, unified_metrics[k])

\* Two events at different times reached all three tables: each table
\* holds their two rows under two different timestamps.
C30_Witness ==
    /\ EventsProcessed = 2
    /\ \A i \in 1..6 : writeLog[i].ret
    /\ Len(unified_metrics) = 2
    /\ unified_metrics[1].timestamp # unified_metrics[2].timestamp
    /\ HasKeyOf(video_metrics, unified_metrics[2])
    /\ HasKeyOf(audio_metrics, unified_metrics[2])
    /\ video_metrics[1].timestamp # video_metrics[2].timestamp

=============================================================================
